---------------------------- MODULE Spec2Model ----------------------------
(***************************************************************************)
(* stcgal: host side of the STC bootloader (BSL) protocols.                *)
(*                                                                         *)
(* The module models                                                       *)
(*   - the two packet framings (Stc89Protocol / Stc12Protocol              *)
(*     read_packet and write_packet) as operators over byte sequences,     *)
(*   - the programming session StcGal.run drives (connect, option          *)
(*     overrides, handshake, erase, program, options, disconnect) for the  *)
(*     protocol classes of stcgal/protocols.py, one action per exchange.   *)
(*                                                                         *)
(* Bytes are naturals 0..255, byte strings are sequences (1-based, so the  *)
(* Python index k is the TLA+ index k+1).                                  *)
(***************************************************************************)
EXTENDS Integers, Sequences, FiniteSets, TLC

VARIABLES
    frame,          \* framing experiment: dialect, payload, wire bytes, result
    unit,           \* experiment on one object: registry lookup, option codec
    opts,           \* command line options handed to StcGal
    pc,             \* position of StcGal.run
    exc,            \* exception in flight ("none" when there is none)
    ret,            \* value returned by run (NotReturned before)
    uncaught,       \* exception that left run ("none" when there is none)
    ser,            \* serial port: state and baudrate
    rx,             \* bytes waiting in the serial input buffer
    trace,          \* history of serial operations of the host
    status_packet,  \* status packet read by connect
    protocol,       \* session state of the protocol object
    bindata,        \* image built by program_mcu
    locals          \* loop counters and locals that live across exchanges

vars == <<frame, unit, opts, pc, exc, ret, uncaught, ser, rx, trace,
          status_packet, protocol, bindata, locals>>

sessionVars == <<opts, pc, exc, ret, uncaught, ser, rx, trace,
                 status_packet, protocol, bindata, locals>>

-----------------------------------------------------------------------------
(* Bytes and byte strings *)

Byte == 0..255

Min(a, b) == IF a < b THEN a ELSE b
Max(a, b) == IF a > b THEN a ELSE b

\* s[lo..hi] summed, by halving so that long strings need no deep recursion
RECURSIVE SumRange(_, _, _)
SumRange(s, lo, hi) ==
    IF lo > hi THEN 0
    ELSE IF lo = hi THEN s[lo]
    ELSE LET mid == (lo + hi) \div 2
         IN  SumRange(s, lo, mid) + SumRange(s, mid + 1, hi)

\* Python sum(s)
Sum(s) == SumRange(s, 1, Len(s))

\* Python s[a:b] for 0 <= a, b (slices never raise)
Slice(s, a, b) ==
    LET hi == Min(b, Len(s))
    IN  IF a >= hi THEN <<>> ELSE SubSeq(s, a + 1, hi)

\* struct.pack(">H", n), defined for 0 <= n <= 65535
PackH(n) == <<n \div 256, n % 256>>

\* struct.unpack(">H", s) of a two byte string
UnpackH(s) == s[1] * 256 + s[2]

\* n bytes of value b
Fill(n, b) == [k \in 1..n |-> b]

-----------------------------------------------------------------------------
(* Framing: StcBaseProtocol constants, write_packet and read_packet *)

PACKET_START == <<70, 185>>
PACKET_END == 22
PACKET_MCU == 104
PACKET_HOST == 106

Dialects == {"A", "B"}

\* number of checksum bytes: Stc89Protocol sums into one byte, Stc12Protocol
\* into two
CsumSize(dialect) == IF dialect = "A" THEN 1 ELSE 2

\* FramePacket with the length field of the one byte checksum in both
\* dialects
FramePacket_ShortLen(dialect, dir, data) ==
    LET head == PACKET_START \o <<dir>> \o PackH(Len(data) + 5) \o data
        s    == SumRange(head, 3, Len(head))
    IN  IF dialect = "A"
        THEN head \o <<s % 256>> \o <<PACKET_END>>
        ELSE head \o PackH(s % 65536) \o <<PACKET_END>>

\* the frame around payload data with direction byte dir
FramePacket(dialect, dir, data) ==
    LET head == PACKET_START \o <<dir>>
                \o PackH(Len(data) + 4 + CsumSize(dialect)) \o data
        s    == SumRange(head, 3, Len(head))
    IN  IF dialect = "A"
        THEN head \o <<s % 256>> \o <<PACKET_END>>
        ELSE head \o PackH(s % 65536) \o <<PACKET_END>>

\* write_packet with the direction byte of the MCU
write_packet_McuDir(dialect, data) == FramePacket(dialect, PACKET_MCU, data)

\* the bytes write_packet puts on the wire for payload data
write_packet(dialect, data) == FramePacket(dialect, PACKET_HOST, data)

\* the bytes an MCU puts on the wire for payload data
McuPacket(dialect, data) == FramePacket(dialect, PACKET_MCU, data)

Timeout(used) == [kind |-> "timeout", payload |-> <<>>, used |-> used]
Framing(used) == [kind |-> "framing", payload |-> <<>>, used |-> used]

\* ReadBody without the check of the end byte
ReadBody_NoEnd(dialect, buf, packet, used) ==
    LET packet_len == UnpackH(Slice(packet, 3, 5))
        num        == packet_len - 3
    IN  IF num < 0 THEN Timeout(used)
        ELSE IF Len(buf) - used < num THEN Timeout(Len(buf))
        ELSE LET full == packet \o Slice(buf, used, used + num)
                 u    == used + num
             IN  IF dialect = "A"
                 THEN IF full[packet_len + 1]
                           # Sum(Slice(full, 2, packet_len)) % 256
                      THEN Framing(u)
                      ELSE [kind |-> "ok", used |-> u,
                            payload |-> Slice(full, 5, packet_len)]
                 ELSE IF UnpackH(Slice(full, packet_len - 1, packet_len + 1))
                           # Sum(Slice(full, 2, packet_len - 1)) % 65536
                      THEN Framing(u)
                      ELSE [kind |-> "ok", used |-> u,
                            payload |-> Slice(full, 5, packet_len - 1)]

\* the part of read_packet after the length field: packet is what has been
\* read so far (5 bytes), used counts the bytes taken from the input buffer
ReadBody(dialect, buf, packet, used) ==
    LET packet_len == UnpackH(Slice(packet, 3, 5))
        num        == packet_len - 3
    IN  IF num < 0 THEN Timeout(used)
        ELSE IF Len(buf) - used < num THEN Timeout(Len(buf))
        ELSE LET full == packet \o Slice(buf, used, used + num)
                 u    == used + num
             IN  IF full[packet_len + 2] # PACKET_END THEN Framing(u)
                 ELSE IF dialect = "A"
                 THEN IF full[packet_len + 1]
                           # Sum(Slice(full, 2, packet_len)) % 256
                      THEN Framing(u)
                      ELSE [kind |-> "ok", used |-> u,
                            payload |-> Slice(full, 5, packet_len)]
                 ELSE IF UnpackH(Slice(full, packet_len - 1, packet_len + 1))
                           # Sum(Slice(full, 2, packet_len - 1)) % 65536
                      THEN Framing(u)
                      ELSE [kind |-> "ok", used |-> u,
                            payload |-> Slice(full, 5, packet_len - 1)]

\* read_packet_89 that insists on the start magic
read_packet_89_Strict(buf) ==
    IF Len(buf) < 1 THEN Timeout(Len(buf))
    ELSE IF buf[1] # PACKET_START[1] THEN Framing(1)
    ELSE IF Len(buf) < 2 THEN Timeout(Len(buf))
    ELSE IF buf[2] # PACKET_START[2] THEN Framing(2)
    ELSE IF Len(buf) < 3 THEN Timeout(Len(buf))
    ELSE IF buf[3] # PACKET_MCU THEN Framing(3)
    ELSE IF Len(buf) < 5 THEN Timeout(Len(buf))
    ELSE ReadBody("A", buf, Slice(buf, 0, 5), 5)

\* Stc89Protocol.read_packet on input buffer buf
read_packet_89(buf) ==
    IF Len(buf) < 1 THEN Timeout(Len(buf))
    ELSE IF buf[1] = PACKET_MCU
    THEN IF Len(buf) < 3 THEN Timeout(Len(buf))
         ELSE ReadBody("A", buf,
                       PACKET_START \o <<PACKET_MCU>> \o Slice(buf, 1, 3), 3)
    ELSE IF buf[1] # PACKET_START[1] THEN Framing(1)
    ELSE IF Len(buf) < 2 THEN Timeout(Len(buf))
    ELSE IF buf[2] # PACKET_START[2] THEN Framing(2)
    ELSE IF Len(buf) < 3 THEN Timeout(Len(buf))
    ELSE IF buf[3] # PACKET_MCU THEN Framing(3)
    ELSE IF Len(buf) < 5 THEN Timeout(Len(buf))
    ELSE ReadBody("A", buf, Slice(buf, 0, 5), 5)

\* Stc12Protocol.read_packet on input buffer buf
read_packet_12(buf) ==
    IF Len(buf) < 1 THEN Timeout(Len(buf))
    ELSE IF buf[1] # PACKET_START[1] THEN Framing(1)
    ELSE IF Len(buf) < 2 THEN Timeout(Len(buf))
    ELSE IF buf[2] # PACKET_START[2] THEN Framing(2)
    ELSE IF Len(buf) < 5 THEN Timeout(Len(buf))
    ELSE IF buf[3] # PACKET_MCU THEN Framing(5)
    ELSE ReadBody("B", buf, Slice(buf, 0, 5), 5)

read_packet(dialect, buf) ==
    IF dialect = "A" THEN read_packet_89(buf) ELSE read_packet_12(buf)

-----------------------------------------------------------------------------
(* Model registry: MCUModelDatabase.models, in the order of the source;   *)
(* M(name, magic, total, code, eeprom) is one MCUModel.                    *)

M(name, magic, total, code, eeprom) ==
    [name |-> name, magic |-> magic, total |-> total, code |-> code,
     eeprom |-> eeprom]

\* a registry in which two entries that are not E and W variants share a magic
models_Collision ==
    << M("STC15F2K08S2", 62465, 65536, 8192, 54272),
       M("STC15F2K16S2", 62465, 65536, 16384, 46080) >>

models == <<
    M("STC15F2K08S2", 62465, 65536, 8192, 54272),
    M("STC15F2K16S2", 62466, 65536, 16384, 46080),
    M("STC15F2K24S2", 62467, 65536, 24576, 37888),
    M("STC15F2K32S2", 62468, 65536, 32768, 29696),
    M("STC15F2K40S2", 62469, 65536, 40960, 21504),
    M("STC15F2K48S2", 62470, 65536, 49152, 13312),
    M("STC15F2K56S2", 62471, 65536, 57344, 5120),
    M("STC15F2K60S2", 62472, 65536, 61440, 1024),
    M("IAP15F2K61S2", 62537, 65536, 62464, 0),
    M("STC15L2K08S2", 62593, 65536, 8192, 54272),
    M("STC15L2K16S2", 62594, 65536, 16384, 46080),
    M("STC15L2K24S2", 62595, 65536, 24576, 37888),
    M("STC15L2K32S2", 62596, 65536, 32768, 29696),
    M("STC15L2K40S2", 62597, 65536, 40960, 21504),
    M("STC15L2K48S2", 62598, 65536, 49152, 13312),
    M("STC15L2K56S2", 62599, 65536, 57344, 5120),
    M("STC15L2K60S2", 62600, 65536, 61440, 1024),
    M("IAP15L2K61S2", 62665, 65536, 62464, 0),
    M("STC15F404AD", 62474, 65536, 4096, 9216),
    M("STC15F408AD", 62475, 65536, 8192, 5120),
    M("STC15F412AD", 62476, 65536, 12288, 1024),
    M("IAP15F413AD", 62541, 65536, 13312, 0),
    M("STC15L404AD", 62602, 65536, 4096, 9216),
    M("STC15L408AD", 62603, 65536, 8192, 5120),
    M("STC15L412AD", 62604, 65536, 12288, 1024),
    M("IAP15L413AD", 62669, 65536, 13312, 0),
    M("STC15W101SW", 62721, 8192, 1024, 4096),
    M("STC15W102SW", 62722, 8192, 2048, 3072),
    M("STC15W103SW", 62723, 8192, 3072, 2048),
    M("STC15W104SW", 62724, 8192, 4096, 1024),
    M("IAP15W105SW", 62789, 8192, 5120, 0),
    M("STC15W101S", 62728, 8192, 1024, 4096),
    M("STC15W102S", 62730, 8192, 2048, 3072),
    M("STC15W103S", 62731, 8192, 3072, 2048),
    M("STC15W104S", 62732, 8192, 4096, 1024),
    M("IAP15W105S", 62797, 8192, 5120, 0),
    M("STC15W201S", 62737, 8192, 1024, 4096),
    M("STC15W202S", 62738, 8192, 2048, 3072),
    M("STC15W203S", 62739, 8192, 3072, 2048),
    M("STC15W204S", 62740, 8192, 4096, 1024),
    M("IAP15W205S", 62805, 8192, 5120, 0),
    M("STC15F100W", 62096, 8192, 512, 0),
    M("STC15F101W", 62097, 8192, 1024, 4096),
    M("STC15F102W", 62098, 8192, 2048, 3072),
    M("STC15F103W", 62099, 8192, 3072, 2048),
    M("STC15F104W", 62100, 8192, 4096, 1024),
    M("IAP15F105W", 62133, 8192, 5120, 0),
    M("STC15F100", 62104, 8192, 512, 0),
    M("STC15F101", 62105, 8192, 1024, 4096),
    M("STC15F102", 62106, 8192, 2048, 3072),
    M("STC15F103", 62107, 8192, 3072, 2048),
    M("STC15F104", 62108, 8192, 4096, 1024),
    M("IAP15F105", 62141, 8192, 5120, 0),
    M("STC15L100W", 62160, 8192, 512, 0),
    M("STC15L101W", 62161, 8192, 1024, 4096),
    M("STC15L102W", 62162, 8192, 2048, 3072),
    M("STC15L103W", 62163, 8192, 3072, 2048),
    M("STC15L104W", 62164, 8192, 4096, 1024),
    M("IAP15L105W", 62197, 8192, 5120, 0),
    M("STC15L100", 62168, 8192, 512, 0),
    M("STC15L101", 62169, 8192, 1024, 4096),
    M("STC15L102", 62170, 8192, 2048, 3072),
    M("STC15L103", 62171, 8192, 3072, 2048),
    M("STC15L104", 62172, 8192, 4096, 1024),
    M("IAP15L105", 62205, 8192, 5120, 0),
    M("STC15F104E", 62100, 8192, 4096, 1024),
    M("STC15L104E", 62164, 8192, 4096, 1024),
    M("STC15F204EA", 62356, 8192, 4096, 1024),
    M("IAP15F205EA", 62389, 8192, 5120, 0),
    M("STC15L204EA", 62420, 8192, 4096, 1024),
    M("IAP15L205EA", 62453, 8192, 5120, 0),
    M("STC12C5A08S2", 53604, 65536, 8192, 55296),
    M("STC12C5A16S2", 53608, 65536, 16384, 47104),
    M("STC12C5A32S2", 53616, 65536, 32768, 30720),
    M("STC12C5A40S2", 53620, 65536, 40960, 22528),
    M("STC12C5A48S2", 53624, 65536, 49152, 14336),
    M("STC12C5A52S2", 53626, 65536, 53248, 10240),
    M("STC12C5A56S2", 53628, 65536, 57344, 6144),
    M("STC12C5A60S2", 53630, 65536, 61440, 2048),
    M("STC12C5A08AD", 53572, 65536, 8192, 55296),
    M("STC12C5A16AD", 53576, 65536, 16384, 47104),
    M("STC12C5A32AD", 53584, 65536, 32768, 30720),
    M("STC12C5A40AD", 53588, 65536, 40960, 22528),
    M("STC12C5A48AD", 53592, 65536, 49152, 14336),
    M("STC12C5A52AD", 53594, 65536, 53248, 10240),
    M("STC12C5A56AD", 53596, 65536, 57344, 6144),
    M("STC12C5A60AD", 53598, 65536, 61440, 2048),
    M("STC12C5A08CCP", 53540, 65536, 8192, 55296),
    M("STC12C5A16CCP", 53544, 65536, 16384, 47104),
    M("STC12C5A32CCP", 53552, 65536, 32768, 30720),
    M("STC12C5A40CCP", 53556, 65536, 40960, 22528),
    M("STC12C5A48CCP", 53560, 65536, 49152, 14336),
    M("STC12C5A52CCP", 53562, 65536, 53248, 10240),
    M("STC12C5A56CCP", 53564, 65536, 57344, 6144),
    M("STC12C5A60CCP", 53566, 65536, 61440, 2048),
    M("STC12C5A08X", 53508, 65536, 8192, 0),
    M("STC12C5A16X", 53512, 65536, 16384, 0),
    M("STC12C5A32X", 53520, 65536, 32768, 0),
    M("STC12C5A40X", 53524, 65536, 40960, 0),
    M("STC12C5A48X", 53528, 65536, 49152, 0),
    M("STC12C5A52X", 53530, 65536, 53248, 0),
    M("STC12C5A56X", 53532, 65536, 57344, 0),
    M("STC12C5A60X", 53534, 65536, 61440, 0),
    M("IAP12C5A08S2", 53603, 65536, 8192, 0),
    M("IAP12C5A16S2", 53607, 65536, 16384, 0),
    M("IAP12C5A32S2", 53615, 65536, 32768, 0),
    M("IAP12C5A40S2", 53619, 65536, 40960, 0),
    M("IAP12C5A48S2", 53623, 65536, 49152, 0),
    M("IAP12C5A52S2", 53625, 65536, 53248, 0),
    M("IAP12C5A56S2", 53627, 65536, 57344, 0),
    M("IAP12C5A60S2", 53629, 65536, 61440, 0),
    M("IAP12C5A62S2", 53631, 65536, 63488, 0),
    M("IAP12C5A08AD", 53571, 65536, 8192, 0),
    M("IAP12C5A16AD", 53575, 65536, 16384, 0),
    M("IAP12C5A32AD", 53583, 65536, 32768, 0),
    M("IAP12C5A40AD", 53587, 65536, 40960, 0),
    M("IAP12C5A48AD", 53591, 65536, 49152, 0),
    M("IAP12C5A52AD", 53593, 65536, 53248, 0),
    M("IAP12C5A56AD", 53595, 65536, 57344, 0),
    M("IAP12C5A60AD", 53597, 65536, 61440, 0),
    M("IAP12C5A62AD", 53599, 65536, 63488, 0),
    M("IAP12C5A08CCP", 53539, 65536, 8192, 0),
    M("IAP12C5A16CCP", 53543, 65536, 16384, 0),
    M("IAP12C5A32CCP", 53551, 65536, 32768, 0),
    M("IAP12C5A40CCP", 53555, 65536, 40960, 0),
    M("IAP12C5A48CCP", 53559, 65536, 49152, 0),
    M("IAP12C5A52CCP", 53561, 65536, 53248, 0),
    M("IAP12C5A56CCP", 53563, 65536, 57344, 0),
    M("IAP12C5A60CCP", 53565, 65536, 61440, 0),
    M("IAP12C5A62CCP", 53567, 65536, 63488, 0),
    M("IAP12C5A08", 53507, 65536, 8192, 0),
    M("IAP12C5A16", 53511, 65536, 16384, 0),
    M("IAP12C5A32", 53519, 65536, 32768, 0),
    M("IAP12C5A40", 53523, 65536, 40960, 0),
    M("IAP12C5A48", 53527, 65536, 49152, 0),
    M("IAP12C5A52", 53529, 65536, 53248, 0),
    M("IAP12C5A56", 53531, 65536, 57344, 0),
    M("IAP12C5A60", 53533, 65536, 61440, 0),
    M("IAP12C5A62", 53535, 65536, 63488, 0),
    M("STC12LE5A08S2", 53732, 65536, 8192, 55296),
    M("STC12LE5A16S2", 53736, 65536, 16384, 47104),
    M("STC12LE5A32S2", 53744, 65536, 32768, 30720),
    M("STC12LE5A40S2", 53748, 65536, 40960, 22528),
    M("STC12LE5A48S2", 53752, 65536, 49152, 14336),
    M("STC12LE5A52S2", 53754, 65536, 53248, 10240),
    M("STC12LE5A56S2", 53756, 65536, 57344, 6144),
    M("STC12LE5A60S2", 53758, 65536, 61440, 2048),
    M("STC12LE5A08AD", 53700, 65536, 8192, 55296),
    M("STC12LE5A16AD", 53704, 65536, 16384, 47104),
    M("STC12LE5A32AD", 53712, 65536, 32768, 30720),
    M("STC12LE5A40AD", 53716, 65536, 40960, 22528),
    M("STC12LE5A48AD", 53720, 65536, 49152, 14336),
    M("STC12LE5A52AD", 53722, 65536, 53248, 10240),
    M("STC12LE5A56AD", 53724, 65536, 57344, 6144),
    M("STC12LE5A60AD", 53726, 65536, 61440, 2048),
    M("STC12LE5A08CCP", 53668, 65536, 8192, 55296),
    M("STC12LE5A16CCP", 53672, 65536, 16384, 47104),
    M("STC12LE5A32CCP", 53680, 65536, 32768, 30720),
    M("STC12LE5A40CCP", 53684, 65536, 40960, 22528),
    M("STC12LE5A48CCP", 53688, 65536, 49152, 14336),
    M("STC12LE5A52CCP", 53690, 65536, 53248, 10240),
    M("STC12LE5A56CCP", 53692, 65536, 57344, 6144),
    M("STC12LE5A60CCP", 53694, 65536, 61440, 2048),
    M("STC12LE5A08X", 53636, 65536, 8192, 0),
    M("STC12LE5A16X", 53640, 65536, 16384, 0),
    M("STC12LE5A32X", 53648, 65536, 32768, 0),
    M("STC12LE5A40X", 53652, 65536, 40960, 0),
    M("STC12LE5A48X", 53656, 65536, 49152, 0),
    M("STC12LE5A52X", 53658, 65536, 53248, 0),
    M("STC12LE5A56X", 53660, 65536, 57344, 0),
    M("STC12LE5A60X", 53662, 65536, 61440, 0),
    M("IAP12LE5A08S2", 53731, 65536, 8192, 0),
    M("IAP12LE5A16S2", 53735, 65536, 16384, 0),
    M("IAP12LE5A32S2", 53743, 65536, 32768, 0),
    M("IAP12LE5A40S2", 53747, 65536, 40960, 0),
    M("IAP12LE5A48S2", 53751, 65536, 49152, 0),
    M("IAP12LE5A52S2", 53753, 65536, 53248, 0),
    M("IAP12LE5A56S2", 53755, 65536, 57344, 0),
    M("IAP12LE5A60S2", 53757, 65536, 61440, 0),
    M("IAP12LE5A62S2", 53759, 65536, 63488, 0),
    M("IAP12LE5A08AD", 53699, 65536, 8192, 0),
    M("IAP12LE5A16AD", 53703, 65536, 16384, 0),
    M("IAP12LE5A32AD", 53711, 65536, 32768, 0),
    M("IAP12LE5A40AD", 53715, 65536, 40960, 0),
    M("IAP12LE5A48AD", 53719, 65536, 49152, 0),
    M("IAP12LE5A52AD", 53721, 65536, 53248, 0),
    M("IAP12LE5A56AD", 53723, 65536, 57344, 0),
    M("IAP12LE5A60AD", 53725, 65536, 61440, 0),
    M("IAP12LE5A62AD", 53727, 65536, 63488, 0),
    M("IAP12LE5A08CCP", 53667, 65536, 8192, 0),
    M("IAP12LE5A16CCP", 53671, 65536, 16384, 0),
    M("IAP12LE5A32CCP", 53679, 65536, 32768, 0),
    M("IAP12LE5A40CCP", 53683, 65536, 40960, 0),
    M("IAP12LE5A48CCP", 53687, 65536, 49152, 0),
    M("IAP12LE5A52CCP", 53689, 65536, 53248, 0),
    M("IAP12LE5A56CCP", 53691, 65536, 57344, 0),
    M("IAP12LE5A60CCP", 53693, 65536, 61440, 0),
    M("IAP12LE5A62CCP", 53695, 65536, 63488, 0),
    M("IAP12LE5A08", 53635, 65536, 8192, 0),
    M("IAP12LE5A16", 53639, 65536, 16384, 0),
    M("IAP12LE5A32", 53647, 65536, 32768, 0),
    M("IAP12LE5A40", 53651, 65536, 40960, 0),
    M("IAP12LE5A48", 53655, 65536, 49152, 0),
    M("IAP12LE5A52", 53657, 65536, 53248, 0),
    M("IAP12LE5A56", 53659, 65536, 57344, 0),
    M("IAP12LE5A60", 53661, 65536, 61440, 0),
    M("IAP12LE5A62", 53663, 65536, 63488, 0),
    M("STC10F02XE", 53858, 16384, 2048, 12288),
    M("STC10F04XE", 53860, 16384, 4096, 10240),
    M("STC10F06XE", 53862, 16384, 6144, 8192),
    M("STC10F08XE", 53864, 16384, 8192, 6144),
    M("STC10F10XE", 53866, 16384, 10240, 4096),
    M("STC10F12XE", 53868, 16384, 12288, 2048),
    M("STC10F02X", 53826, 16384, 2048, 0),
    M("STC10F04X", 53828, 16384, 4096, 0),
    M("STC10F06X", 53830, 16384, 6144, 0),
    M("STC10F08X", 53832, 16384, 8192, 0),
    M("STC10F10X", 53834, 16384, 10240, 0),
    M("STC10F12X", 53836, 16384, 12288, 0),
    M("STC10F02", 53762, 16384, 2048, 0),
    M("STC10F04", 53764, 16384, 4096, 0),
    M("STC10F06", 53766, 16384, 6144, 0),
    M("STC10F08", 53768, 16384, 8192, 0),
    M("STC10F10", 53770, 16384, 10240, 0),
    M("STC10F12", 53772, 16384, 12288, 0),
    M("IAP10F02XE", 53874, 16384, 2048, 0),
    M("IAP10F04XE", 53876, 16384, 4096, 0),
    M("IAP10F06XE", 53878, 16384, 6144, 0),
    M("IAP10F08XE", 53880, 16384, 8192, 0),
    M("IAP10F10XE", 53882, 16384, 10240, 0),
    M("IAP10F12XE", 53884, 16384, 12288, 0),
    M("IAP10F14X", 53886, 16384, 14336, 0),
    M("IAP10F02", 53810, 16384, 2048, 0),
    M("IAP10F04", 53812, 16384, 4096, 0),
    M("IAP10F06", 53814, 16384, 6144, 0),
    M("IAP10F08", 53816, 16384, 8192, 0),
    M("IAP10F10", 53818, 16384, 10240, 0),
    M("IAP10F12", 53820, 16384, 12288, 0),
    M("IAP10F14", 53822, 16384, 14336, 0),
    M("STC10L02XE", 53986, 16384, 2048, 12288),
    M("STC10L04XE", 53988, 16384, 4096, 10240),
    M("STC10L06XE", 53990, 16384, 6144, 8192),
    M("STC10L08XE", 53992, 16384, 8192, 6144),
    M("STC10L10XE", 53994, 16384, 10240, 4096),
    M("STC10L12XE", 53996, 16384, 12288, 2048),
    M("STC10L02X", 53954, 16384, 2048, 0),
    M("STC10L04X", 53956, 16384, 4096, 0),
    M("STC10L06X", 53958, 16384, 6144, 0),
    M("STC10L08X", 53960, 16384, 8192, 0),
    M("STC10L10X", 53962, 16384, 10240, 0),
    M("STC10L12X", 53964, 16384, 12288, 0),
    M("STC10L02", 53890, 16384, 2048, 0),
    M("STC10L04", 53892, 16384, 4096, 0),
    M("STC10L06", 53894, 16384, 6144, 0),
    M("STC10L08", 53896, 16384, 8192, 0),
    M("STC10L10", 53898, 16384, 10240, 0),
    M("STC10L12", 53900, 16384, 12288, 0),
    M("IAP10L02XE", 54002, 16384, 2048, 0),
    M("IAP10L04XE", 54004, 16384, 4096, 0),
    M("IAP10L06XE", 54006, 16384, 6144, 0),
    M("IAP10L08XE", 54008, 16384, 8192, 0),
    M("IAP10L10XE", 54010, 16384, 10240, 0),
    M("IAP10L12XE", 54012, 16384, 12288, 0),
    M("IAP10L14X", 54014, 16384, 14336, 0),
    M("IAP10L02", 53938, 16384, 2048, 0),
    M("IAP10L04", 53940, 16384, 4096, 0),
    M("IAP10L06", 53942, 16384, 6144, 0),
    M("IAP10L08", 53944, 16384, 8192, 0),
    M("IAP10L10", 53946, 16384, 10240, 0),
    M("IAP10L12", 53948, 16384, 12288, 0),
    M("IAP10L14", 53950, 16384, 14336, 0),
    M("STC11F01E", 57889, 8192, 1024, 5120),
    M("STC11F02E", 57890, 8192, 2048, 4096),
    M("STC11F03E", 57891, 8192, 3072, 3072),
    M("STC11F04E", 57892, 8192, 4096, 2048),
    M("STC11F05E", 57957, 8192, 5120, 1024),
    M("STC11F01", 57857, 8192, 1024, 0),
    M("STC11F02", 57858, 8192, 2048, 0),
    M("STC11F03", 57859, 8192, 3072, 0),
    M("STC11F04", 57860, 8192, 4096, 0),
    M("STC11F05", 57925, 8192, 5120, 0),
    M("IAP11F01E", 57905, 8192, 1024, 0),
    M("IAP11F02E", 57906, 8192, 2048, 0),
    M("IAP11F03E", 57907, 8192, 3072, 0),
    M("IAP11F04E", 57908, 8192, 4096, 0),
    M("IAP11F05E", 57973, 8192, 5120, 0),
    M("IAP11F01", 57873, 8192, 1024, 0),
    M("IAP11F02", 57874, 8192, 2048, 0),
    M("IAP11F03", 57875, 8192, 3072, 0),
    M("IAP11F04", 57876, 8192, 4096, 0),
    M("IAP11F05", 57941, 8192, 5120, 0),
    M("IAP11F06", 57974, 8192, 6144, 0),
    M("STC11L01E", 58017, 8192, 1024, 5120),
    M("STC11L02E", 58018, 8192, 2048, 4096),
    M("STC11L03E", 58019, 8192, 3072, 3072),
    M("STC11L04E", 58020, 8192, 4096, 2048),
    M("STC11L05E", 58085, 8192, 5120, 1024),
    M("STC11L01", 57985, 8192, 1024, 0),
    M("STC11L02", 57986, 8192, 2048, 0),
    M("STC11L03", 57987, 8192, 3072, 0),
    M("STC11L04", 57988, 8192, 4096, 0),
    M("STC11L05", 58053, 8192, 5120, 0),
    M("IAP11L01E", 58033, 8192, 1024, 0),
    M("IAP11L02E", 58034, 8192, 2048, 0),
    M("IAP11L03E", 58035, 8192, 3072, 0),
    M("IAP11L04E", 58036, 8192, 4096, 0),
    M("IAP11L05E", 58101, 8192, 5120, 0),
    M("IAP11L01", 58001, 8192, 1024, 0),
    M("IAP11L02", 58002, 8192, 2048, 0),
    M("IAP11L03", 58003, 8192, 3072, 0),
    M("IAP11L04", 58004, 8192, 4096, 0),
    M("IAP11L05", 58069, 8192, 5120, 0),
    M("IAP11L06", 58102, 8192, 6144, 0),
    M("STC11F08XE", 54116, 65536, 8192, 55296),
    M("STC11F16XE", 54120, 65536, 16384, 47104),
    M("STC11F20XE", 54122, 65536, 20480, 30720),
    M("STC11F32XE", 54128, 65536, 32768, 30720),
    M("STC11F40XE", 54132, 65536, 40960, 22528),
    M("STC11F48XE", 54136, 65536, 49152, 14336),
    M("STC11F52XE", 54138, 65536, 53248, 10240),
    M("STC11F56XE", 54140, 65536, 57344, 6144),
    M("STC11F60XE", 54142, 65536, 61440, 2048),
    M("STC11F08X", 54084, 65536, 8192, 0),
    M("STC11F16X", 54088, 65536, 16384, 0),
    M("STC11F20X", 54090, 65536, 20480, 0),
    M("STC11F32X", 54096, 65536, 32768, 0),
    M("STC11F40X", 54100, 65536, 40960, 0),
    M("STC11F48X", 54104, 65536, 49152, 0),
    M("STC11F52X", 54106, 65536, 53248, 0),
    M("STC11F56X", 54108, 65536, 57344, 0),
    M("STC11F60X", 54110, 65536, 61440, 0),
    M("STC11F08", 54020, 65536, 8192, 0),
    M("STC11F16", 54024, 65536, 16384, 0),
    M("STC11F20", 54026, 65536, 20480, 0),
    M("STC11F32", 54032, 65536, 32768, 0),
    M("STC11F40", 54036, 65536, 40960, 0),
    M("STC11F48", 54040, 65536, 49152, 0),
    M("STC11F52", 54042, 65536, 53248, 0),
    M("STC11F56", 54044, 65536, 57344, 0),
    M("STC11F60", 54046, 65536, 61440, 0),
    M("IAP11F08XE", 54115, 65536, 8192, 0),
    M("IAP11F16XE", 54119, 65536, 16384, 0),
    M("IAP11F20XE", 54121, 65536, 20480, 0),
    M("IAP11F32XE", 54127, 65536, 32768, 0),
    M("IAP11F40XE", 54131, 65536, 40960, 0),
    M("IAP11F48XE", 54135, 65536, 49152, 0),
    M("IAP11F52XE", 54137, 65536, 53248, 0),
    M("IAP11F56XE", 54139, 65536, 57344, 0),
    M("IAP11F60XE", 54141, 65536, 61440, 0),
    M("IAP11F08X", 54083, 65536, 8192, 0),
    M("IAP11F16X", 54087, 65536, 16384, 0),
    M("IAP11F20X", 54089, 65536, 20480, 0),
    M("IAP11F32X", 54095, 65536, 32768, 0),
    M("IAP11F40X", 54099, 65536, 40960, 0),
    M("IAP11F48X", 54103, 65536, 49152, 0),
    M("IAP11F52X", 54105, 65536, 53248, 0),
    M("IAP11F56X", 54107, 65536, 57344, 0),
    M("IAP11F60X", 54109, 65536, 61440, 0),
    M("IAP11F62X", 54111, 65536, 63488, 0),
    M("IAP11F08", 54019, 65536, 8192, 0),
    M("IAP11F16", 54023, 65536, 16384, 0),
    M("IAP11F20", 54025, 65536, 20480, 0),
    M("IAP11F32", 54031, 65536, 32768, 0),
    M("IAP11F40", 54035, 65536, 40960, 0),
    M("IAP11F48", 54039, 65536, 49152, 0),
    M("IAP11F52", 54041, 65536, 53248, 0),
    M("IAP11F56", 54043, 65536, 57344, 0),
    M("IAP11F60", 54045, 65536, 61440, 0),
    M("IAP11F62", 54047, 65536, 63488, 0),
    M("STC11L08XE", 54244, 65536, 8192, 55296),
    M("STC11L16XE", 54248, 65536, 16384, 47104),
    M("STC11L20XE", 54250, 65536, 20480, 30720),
    M("STC11L32XE", 54256, 65536, 32768, 30720),
    M("STC11L40XE", 54260, 65536, 40960, 22528),
    M("STC11L48XE", 54264, 65536, 49152, 14336),
    M("STC11L52XE", 54266, 65536, 53248, 10240),
    M("STC11L56XE", 54268, 65536, 57344, 6144),
    M("STC11L60XE", 54270, 65536, 61440, 2048),
    M("STC11L08X", 54212, 65536, 8192, 0),
    M("STC11L16X", 54216, 65536, 16384, 0),
    M("STC11L20X", 54218, 65536, 20480, 0),
    M("STC11L32X", 54224, 65536, 32768, 0),
    M("STC11L40X", 54228, 65536, 40960, 0),
    M("STC11L48X", 54232, 65536, 49152, 0),
    M("STC11L52X", 54234, 65536, 53248, 0),
    M("STC11L56X", 54236, 65536, 57344, 0),
    M("STC11L60X", 54238, 65536, 61440, 0),
    M("STC11L08", 54148, 65536, 8192, 0),
    M("STC11L16", 54152, 65536, 16384, 0),
    M("STC11L20", 54154, 65536, 20480, 0),
    M("STC11L32", 54160, 65536, 32768, 0),
    M("STC11L40", 54164, 65536, 40960, 0),
    M("STC11L48", 54168, 65536, 49152, 0),
    M("STC11L52", 54170, 65536, 53248, 0),
    M("STC11L56", 54172, 65536, 57344, 0),
    M("STC11L60", 54174, 65536, 61440, 0),
    M("IAP11L08XE", 54243, 65536, 8192, 0),
    M("IAP11L16XE", 54247, 65536, 16384, 0),
    M("IAP11L20XE", 54249, 65536, 20480, 0),
    M("IAP11L32XE", 54255, 65536, 32768, 0),
    M("IAP11L40XE", 54259, 65536, 40960, 0),
    M("IAP11L48XE", 54263, 65536, 49152, 0),
    M("IAP11L52XE", 54265, 65536, 53248, 0),
    M("IAP11L56XE", 54267, 65536, 57344, 0),
    M("IAP11L60XE", 54269, 65536, 61440, 0),
    M("IAP11L08X", 54211, 65536, 8192, 0),
    M("IAP11L16X", 54215, 65536, 16384, 0),
    M("IAP11L20X", 54217, 65536, 20480, 0),
    M("IAP11L32X", 54223, 65536, 32768, 0),
    M("IAP11L40X", 54227, 65536, 40960, 0),
    M("IAP11L48X", 54231, 65536, 49152, 0),
    M("IAP11L52X", 54233, 65536, 53248, 0),
    M("IAP11L56X", 54235, 65536, 57344, 0),
    M("IAP11L60X", 54237, 65536, 61440, 0),
    M("IAP11L62X", 54239, 65536, 63488, 0),
    M("IAP11L08", 54147, 65536, 8192, 0),
    M("IAP11L16", 54151, 65536, 16384, 0),
    M("IAP11L20", 54153, 65536, 20480, 0),
    M("IAP11L32", 54159, 65536, 32768, 0),
    M("IAP11L40", 54163, 65536, 40960, 0),
    M("IAP11L48", 54167, 65536, 49152, 0),
    M("IAP11L52", 54169, 65536, 53248, 0),
    M("IAP11L56", 54171, 65536, 57344, 0),
    M("IAP11L60", 54173, 65536, 61440, 0),
    M("IAP11L62", 54175, 65536, 63488, 0),
    M("STC12C5201AD", 57697, 8192, 1024, 5120),
    M("STC12C5202AD", 57698, 8192, 2048, 4096),
    M("STC12C5203AD", 57699, 8192, 3072, 3072),
    M("STC12C5204AD", 57700, 8192, 4096, 2048),
    M("STC12C5205AD", 57701, 8192, 5120, 1024),
    M("STC12C5206AD", 57702, 8192, 6144, 0),
    M("STC12C5201PWM", 57633, 8192, 1024, 5120),
    M("STC12C5202PWM", 57634, 8192, 2048, 4096),
    M("STC12C5203PWM", 57635, 8192, 3072, 3072),
    M("STC12C5204PWM", 57636, 8192, 4096, 2048),
    M("STC12C5205PWM", 57637, 8192, 5120, 1024),
    M("STC12C5206PWM", 57638, 8192, 6144, 0),
    M("STC12C5201", 57601, 8192, 1024, 5120),
    M("STC12C5202", 57602, 8192, 2048, 4096),
    M("STC12C5203", 57603, 8192, 3072, 3072),
    M("STC12C5204", 57604, 8192, 4096, 2048),
    M("STC12C5205", 57605, 8192, 5120, 1024),
    M("STC12C5206", 57606, 8192, 6144, 0),
    M("STC12LE5201AD", 57825, 8192, 1024, 5120),
    M("STC12LE5202AD", 57826, 8192, 2048, 4096),
    M("STC12LE5203AD", 57827, 8192, 3072, 3072),
    M("STC12LE5204AD", 57828, 8192, 4096, 2048),
    M("STC12LE5205AD", 57829, 8192, 5120, 1024),
    M("STC12LE5206AD", 57830, 8192, 6144, 0),
    M("STC12LE5201PWM", 57761, 8192, 1024, 5120),
    M("STC12LE5202PWM", 57762, 8192, 2048, 4096),
    M("STC12LE5203PWM", 57763, 8192, 3072, 3072),
    M("STC12LE5204PWM", 57764, 8192, 4096, 2048),
    M("STC12LE5205PWM", 57765, 8192, 5120, 1024),
    M("STC12LE5206PWM", 57766, 8192, 6144, 0),
    M("STC12LE5201", 57729, 8192, 1024, 5120),
    M("STC12LE5202", 57730, 8192, 2048, 4096),
    M("STC12LE5203", 57731, 8192, 3072, 3072),
    M("STC12LE5204", 57732, 8192, 4096, 2048),
    M("STC12LE5205", 57733, 8192, 5120, 1024),
    M("STC12LE5206", 57734, 8192, 6144, 0),
    M("STC12C5601AD", 58977, 32768, 1024, 29696),
    M("STC12C5602AD", 58978, 32768, 2048, 28672),
    M("STC12C5603AD", 58979, 32768, 3072, 27648),
    M("STC12C5604AD", 58980, 32768, 4096, 26624),
    M("STC12C5605AD", 58981, 32768, 5120, 25600),
    M("STC12C5606AD", 58982, 32768, 6144, 24576),
    M("STC12C5608AD", 58984, 32768, 8192, 22528),
    M("STC12C5612AD", 58988, 32768, 12288, 18432),
    M("STC12C5616AD", 58992, 32768, 16384, 14336),
    M("STC12C5620AD", 58996, 32768, 20480, 10240),
    M("STC12C5624AD", 59000, 32768, 24576, 6144),
    M("STC12C5628AD", 59004, 32768, 28672, 2048),
    M("STC12C5630AD", 59006, 32768, 30720, 0),
    M("STC12C5601", 58881, 32768, 1024, 29696),
    M("STC12C5602", 58882, 32768, 2048, 28672),
    M("STC12C5603", 58883, 32768, 3072, 27648),
    M("STC12C5604", 58884, 32768, 4096, 26624),
    M("STC12C5605", 58885, 32768, 5120, 25600),
    M("STC12C5606", 58886, 32768, 6144, 24576),
    M("STC12C5608", 58888, 32768, 8192, 22528),
    M("STC12C5612", 58892, 32768, 12288, 18432),
    M("STC12C5616", 58896, 32768, 16384, 14336),
    M("STC12C5620", 58900, 32768, 20480, 10240),
    M("STC12C5624", 58904, 32768, 24576, 6144),
    M("STC12C5628", 58908, 32768, 28672, 2048),
    M("STC12C5630", 58910, 32768, 30720, 0),
    M("STC12LE5601AD", 59105, 32768, 1024, 29696),
    M("STC12LE5602AD", 59106, 32768, 2048, 28672),
    M("STC12LE5603AD", 59107, 32768, 3072, 27648),
    M("STC12LE5604AD", 59108, 32768, 4096, 26624),
    M("STC12LE5605AD", 59109, 32768, 5120, 25600),
    M("STC12LE5606AD", 59110, 32768, 6144, 24576),
    M("STC12LE5608AD", 59112, 32768, 8192, 22528),
    M("STC12LE5612AD", 59116, 32768, 12288, 18432),
    M("STC12LE5616AD", 59120, 32768, 16384, 14336),
    M("STC12LE5620AD", 59124, 32768, 20480, 10240),
    M("STC12LE5624AD", 59128, 32768, 24576, 6144),
    M("STC12LE5628AD", 59132, 32768, 28672, 2048),
    M("STC12LE5630AD", 59134, 32768, 30720, 0),
    M("STC12LE5601", 59009, 32768, 1024, 29696),
    M("STC12LE5602", 59010, 32768, 2048, 28672),
    M("STC12LE5603", 59011, 32768, 3072, 27648),
    M("STC12LE5604", 59012, 32768, 4096, 26624),
    M("STC12LE5605", 59013, 32768, 5120, 25600),
    M("STC12LE5606", 59014, 32768, 6144, 24576),
    M("STC12LE5608", 59016, 32768, 8192, 22528),
    M("STC12LE5612", 59020, 32768, 12288, 18432),
    M("STC12LE5616", 59024, 32768, 16384, 14336),
    M("STC12LE5620", 59028, 32768, 20480, 10240),
    M("STC12LE5624", 59032, 32768, 24576, 6144),
    M("STC12LE5628", 59036, 32768, 28672, 2048),
    M("STC12LE5630", 59038, 32768, 30720, 0),
    M("STC12C5401AD", 57441, 32768, 1024, 12288),
    M("STC12C5402AD", 57442, 32768, 2048, 12288),
    M("STC12C5404AD", 57444, 32768, 4096, 12288),
    M("STC12C5406AD", 57446, 32768, 6144, 12288),
    M("STC12C5408AD", 57448, 32768, 8192, 12288),
    M("STC12C5410AD", 57450, 32768, 10240, 12288),
    M("STC12C5412AD", 57452, 32768, 12288, 12288),
    M("STC12C5416AD", 57456, 32768, 16384, 12288),
    M("STC12C5420AD", 57460, 32768, 20480, 12288),
    M("STC12C5424AD", 57464, 32768, 24576, 12288),
    M("STC12C5428AD", 57468, 32768, 28672, 12288),
    M("STC12C5401", 57345, 32768, 1024, 12288),
    M("STC12C5402", 57346, 32768, 2048, 12288),
    M("STC12C5404", 57348, 32768, 4096, 12288),
    M("STC12C5406", 57350, 32768, 6144, 12288),
    M("STC12C5408", 57352, 32768, 8192, 12288),
    M("STC12C5410", 57354, 32768, 10240, 12288),
    M("STC12C5412", 57356, 32768, 12288, 12288),
    M("STC12C5416", 57360, 32768, 16384, 12288),
    M("STC12C5420", 57364, 32768, 20480, 12288),
    M("STC12C5424", 57368, 32768, 24576, 12288),
    M("STC12C5428", 57372, 32768, 28672, 12288),
    M("STC12LE5401AD", 57569, 32768, 1024, 22016),
    M("STC12LE5402AD", 57570, 32768, 2048, 20992),
    M("STC12LE5404AD", 57572, 32768, 4096, 18944),
    M("STC12LE5406AD", 57574, 32768, 6144, 16896),
    M("STC12LE5408AD", 57576, 32768, 8192, 10752),
    M("STC12LE5410AD", 57578, 32768, 10240, 4608),
    M("STC12LE5412AD", 57580, 32768, 12288, 11776),
    M("STC12LE5416AD", 57584, 32768, 16384, 12288),
    M("STC12LE5420AD", 57588, 32768, 20480, 8192),
    M("STC12LE5424AD", 57592, 32768, 24576, 4096),
    M("STC12LE5428AD", 57596, 32768, 28672, 0),
    M("STC12LE5401", 57473, 32768, 1024, 22016),
    M("STC12LE5402", 57474, 32768, 2048, 20992),
    M("STC12LE5404", 57476, 32768, 4096, 18944),
    M("STC12LE5406", 57478, 32768, 6144, 16896),
    M("STC12LE5408", 57480, 32768, 8192, 10752),
    M("STC12LE5410", 57482, 32768, 10240, 4608),
    M("STC12LE5412", 57484, 32768, 12288, 11776),
    M("STC12LE5416", 57488, 32768, 16384, 12288),
    M("STC12LE5420", 57492, 32768, 20480, 8192),
    M("STC12LE5424", 57496, 32768, 24576, 4096),
    M("STC12LE5428", 57500, 32768, 28672, 0),
    M("STC12C1052AD", 61969, 8192, 1024, 4096),
    M("STC12C2052AD", 61970, 8192, 2048, 3072),
    M("STC12C3052AD", 61971, 8192, 3072, 2048),
    M("STC12C4052AD", 61972, 8192, 4096, 1024),
    M("STC12C5052AD", 61973, 8192, 5120, 0),
    M("STC12C1052", 61953, 8192, 1024, 4096),
    M("STC12C2052", 61954, 8192, 2048, 3072),
    M("STC12C3052", 61955, 8192, 3072, 2048),
    M("STC12C4052", 61956, 8192, 4096, 1024),
    M("STC12C5052", 61957, 8192, 5120, 0),
    M("STC12LE1052AD", 62001, 8192, 1024, 4096),
    M("STC12LE2052AD", 62002, 8192, 2048, 3072),
    M("STC12LE3052AD", 62003, 8192, 3072, 2048),
    M("STC12LE4052AD", 62004, 8192, 4096, 1024),
    M("STC12LE5052AD", 62005, 8192, 5120, 0),
    M("STC12LE1052", 61985, 8192, 1024, 4096),
    M("STC12LE2052", 61986, 8192, 2048, 3072),
    M("STC12LE3052", 61987, 8192, 3072, 2048),
    M("STC12LE4052", 61988, 8192, 4096, 1024),
    M("STC12LE5052", 61989, 8192, 5120, 0),
    M("STC90C51RC", 61473, 16384, 4096, 9216),
    M("STC90C52RC", 61474, 16384, 8192, 5120),
    M("STC90C53RC", 61476, 16384, 14336, 0),
    M("STC90C06RC", 61478, 16384, 6144, 7168),
    M("STC90C07RC", 61479, 16384, 7168, 6144),
    M("STC90C10RC", 61482, 16384, 10240, 3072),
    M("STC90C12RC", 61484, 16384, 12288, 1024),
    M("STC90LE51RC", 61505, 16384, 4096, 9216),
    M("STC90LE52RC", 61506, 16384, 8192, 5120),
    M("STC90LE53RC", 61508, 16384, 14336, 0),
    M("STC90LE06RC", 61510, 16384, 6144, 7168),
    M("STC90LE07RC", 61511, 16384, 7168, 6144),
    M("STC90LE10RC", 61514, 16384, 10240, 3072),
    M("STC90LE12RC", 61516, 16384, 12288, 1024),
    M("STC90C51RD+", 61729, 65536, 4096, 58368),
    M("STC90C52RD+", 61730, 65536, 8192, 54272),
    M("STC90C54RD+", 61732, 65536, 16384, 46080),
    M("STC90C55RD+", 61733, 65536, 20480, 41984),
    M("STC90C58RD+", 61736, 65536, 32768, 29696),
    M("STC90C510RD+", 61738, 65536, 40960, 21504),
    M("STC90C512RD+", 61740, 65536, 49152, 13312),
    M("STC90C513RD+", 61741, 65536, 53248, 9216),
    M("STC90C514RD+", 61742, 65536, 57344, 5120),
    M("STC90C516RD+", 61744, 65536, 62464, 0),
    M("STC90LE51RD+", 61761, 65536, 4096, 58368),
    M("STC90LE52RD+", 61762, 65536, 8192, 54272),
    M("STC90LE54RD+", 61764, 65536, 16384, 46080),
    M("STC90LE55RD+", 61765, 65536, 20480, 41984),
    M("STC90LE58RD+", 61768, 65536, 32768, 29696),
    M("STC90LE510RD+", 61770, 65536, 40960, 21504),
    M("STC90LE512RD+", 61772, 65536, 49152, 13312),
    M("STC90LE513RD+", 61773, 65536, 53248, 9216),
    M("STC90LE514RD+", 61774, 65536, 57344, 5120),
    M("STC90LE516RD+", 61776, 65536, 62464, 0),
    M("STC90C51AD", 61793, 65536, 4096, 58368),
    M("STC90C52AD", 61794, 65536, 8192, 54272),
    M("STC90C54AD", 61796, 65536, 16384, 46080),
    M("STC90C55AD", 61797, 65536, 20480, 41984),
    M("STC90C58AD", 61800, 65536, 32768, 29696),
    M("STC90C510AD", 61802, 65536, 40960, 21504),
    M("STC90C512AD", 61804, 65536, 49152, 13312),
    M("STC90C513AD", 61805, 65536, 53248, 9216),
    M("STC90C514AD", 61806, 65536, 57344, 5120),
    M("STC90C516AD", 61808, 65536, 62464, 0),
    M("STC90LE51AD", 61825, 65536, 4096, 58368),
    M("STC90LE52AD", 61826, 65536, 8192, 54272),
    M("STC90LE54AD", 61828, 65536, 16384, 46080),
    M("STC90LE55AD", 61829, 65536, 20480, 41984),
    M("STC90LE58AD", 61832, 65536, 32768, 29696),
    M("STC90LE510AD", 61834, 65536, 40960, 21504),
    M("STC90LE512AD", 61836, 65536, 49152, 13312),
    M("STC90LE513AD", 61837, 65536, 53248, 9216),
    M("STC90LE514AD", 61838, 65536, 57344, 5120),
    M("STC90LE516AD", 61840, 65536, 62464, 0),
    M("STC89C/LE51RC", 61441, 16384, 4096, 10240),
    M("STC89C/LE52RC", 61442, 16384, 8192, 6144),
    M("STC89C/LE53RC", 61444, 16384, 14336, 0),
    M("STC89C/LE06RC", 61446, 16384, 6144, 8192),
    M("STC89C/LE07RC", 61447, 16384, 7168, 7168),
    M("STC89C/LE10RC", 61450, 16384, 10240, 4096),
    M("STC89C/LE12RC", 61452, 16384, 12288, 2048),
    M("STC89C/LE51RD+", 61697, 65536, 4096, 59392),
    M("STC89C/LE52RD+", 61698, 65536, 8192, 55296),
    M("STC89C/LE54RD+", 61700, 65536, 16384, 47104),
    M("STC89C/LE55RD+", 61701, 65536, 20480, 43008),
    M("STC89C/LE58RD+", 61704, 65536, 32768, 30720),
    M("STC89C/LE510RD+", 61706, 65536, 40960, 22528),
    M("STC89C/LE512RD+", 61708, 65536, 49152, 14336),
    M("STC89C/LE513RD+", 61709, 65536, 53248, 10240),
    M("STC89C/LE514RD+", 61710, 65536, 57344, 6144),
    M("STC89C/LE516RD+", 61712, 65536, 63488, 0) >>

\* position of the first registry entry with this magic, 0 when there is none
FirstModel(magic) ==
    LET hits == {k \in 1..Len(models) : models[k].magic = magic}
    IN  IF hits = {} THEN 0
        ELSE CHOOSE k \in hits : \A j \in hits : k <= j

\* MCUModelDatabase.find_model: the entry, or NameError
find_model(magic) ==
    LET k == FirstModel(magic)
    IN  IF k = 0 THEN [raised |-> TRUE, model |-> M("", magic, 0, 0, 0)]
        ELSE [raised |-> FALSE, model |-> models[k]]

\* StcBaseProtocol.initialize_model: an unknown magic gets the UNKNOWN model
initialize_model(magic) ==
    LET found == find_model(magic)
    IN  IF found.raised THEN M("UNKNOWN", magic, 63488, 63488, 0)
        ELSE found.model

-----------------------------------------------------------------------------
(* Registry experiment: find_model and initialize_model are applied to a   *)
(* magic, which is the magic of a registry entry or one the registry does  *)
(* not have.                                                               *)

\* the magics of the registry entries
RegistryMagics == {models[k].magic : k \in 1..Len(models)}

\* magics without an entry: the ends of the 16 bit range and neighbours of
\* entries
UnknownMagics == {0, 61440, 62293, 62677, 65535} \ RegistryMagics

UnitIdle == [exp |-> "none", pc |-> "idle"]

RegistryInit ==
    [exp |-> "registry", pc |-> "init", magic |-> 0,
     found |-> [raised |-> FALSE, model |-> M("", 0, 0, 0, 0)],
     model |-> M("", 0, 0, 0, 0)]

\* MCUModelDatabase.find_model(magic)
RegistryFind ==
    /\ unit.exp = "registry"
    /\ unit.pc = "init"
    /\ unit' = [unit EXCEPT !.pc = "found", !.found = find_model(unit.magic)]
    /\ UNCHANGED <<frame, sessionVars>>

\* StcBaseProtocol.initialize_model with mcu_magic = magic
RegistryInitialize ==
    /\ unit.exp = "registry"
    /\ unit.pc = "found"
    /\ unit' = [unit EXCEPT !.pc = "done", !.model = initialize_model(unit.magic)]
    /\ UNCHANGED <<frame, sessionVars>>

RegistryNext == RegistryFind \/ RegistryInitialize

-----------------------------------------------------------------------------

(* Framing experiment: a payload is framed by write_packet, the bytes come *)
(* back either unchanged (loopback) or as the MCU frames the same payload, *)
(* and read_packet decodes them.                                           *)

MaxPayloadLen == 2

\* byte values that matter to the framing (0x00, 0x16, 0x46, 0x68, 0xff)
FrameBytes == {0, 22, 70, 104, 255}

\* payload lengths around the carries of the length field and the largest
\* payload the 16 bit length field of both dialects can describe
LongLens == {250, 251, 65529}

RECURSIVE SeqsUpTo(_, _)
SeqsUpTo(S, n) ==
    IF n = 0 THEN {<<>>}
    ELSE LET shorter == SeqsUpTo(S, n - 1)
         IN  shorter \cup {Append(s, b) : s \in {t \in shorter : Len(t) = n - 1},
                                          b \in S}

FramePayloads ==
    SeqsUpTo(FrameBytes, MaxPayloadLen)
        \cup {Fill(n, b) : n \in LongLens, b \in {0, 255}}

NoResult == [kind |-> "none", payload |-> <<>>, used |-> 0]

\* values tried in the length field in place of the right one: too small
\* for a frame, around the smallest frames, an end byte, and the largest
LenFields == (0..8) \cup {22, 65535}

\* the frame an MCU would build around data if it put v in the length field
\* (the checksum is right for the bytes sent)
ForgedPacket(dialect, v, data) ==
    LET head == PACKET_START \o <<PACKET_MCU>> \o PackH(v) \o data
        s    == SumRange(head, 3, Len(head))
    IN  IF dialect = "A"
        THEN head \o <<s % 256>> \o <<PACKET_END>>
        ELSE head \o PackH(s % 65536) \o <<PACKET_END>>

\* the well-formed MCU frame f around data with one fault: a wrong byte in
\* the start magic, the direction, the end byte, the checksum or the payload,
\* a frame cut short, a wrong length field (with the old or a new checksum)
FrameFaults(dialect, data, f) ==
    LET n   == Len(f)
        bad == LenFields \ {UnpackH(Slice(f, 3, 5))}
    IN  {[kind |-> "magic", bytes |-> [f EXCEPT ![k] = b]] :
             k \in {1, 2}, b \in {0, PACKET_MCU}}
        \cup {[kind |-> "dir", bytes |-> [f EXCEPT ![3] = PACKET_HOST]]}
        \cup {[kind |-> "end", bytes |-> [f EXCEPT ![n] = 0]]}
        \cup {[kind |-> "csum", bytes |-> [f EXCEPT ![n - k] = (f[n - k] + 1) % 256]] :
                  k \in 1..CsumSize(dialect)}
        \cup (IF data = <<>> THEN {}
              ELSE {[kind |-> "data", bytes |-> [f EXCEPT ![6] = (f[6] + 1) % 256]]})
        \cup {[kind |-> "cut", bytes |-> Slice(f, 0, k)] :
                  k \in (0..5) \cup {n - 2, n - 1}}
        \cup {[kind |-> "len", bytes |-> [f EXCEPT ![4] = v \div 256, ![5] = v % 256]] :
                  v \in bad}
        \cup {[kind |-> "len", bytes |-> ForgedPacket(dialect, v, data)] : v \in bad}

FrameIdle ==
    [pc |-> "idle", dialect |-> "A", payload |-> <<>>, wire |-> <<>>,
     src |-> "none", fault |-> "none", result |-> NoResult, bare |-> NoResult]

\* the host frames the payload
FrameWrite ==
    /\ frame.pc = "init"
    /\ frame' = [frame EXCEPT !.pc = "written",
                    !.wire = write_packet(frame.dialect, frame.payload)]
    /\ UNCHANGED <<unit, sessionVars>>

\* the bytes the host wrote are fed back to it unchanged
FrameLoopback ==
    /\ frame.pc = "written"
    /\ frame' = [frame EXCEPT !.pc = "rx", !.src = "host"]
    /\ UNCHANGED <<unit, sessionVars>>

\* the MCU answers with a frame of its own around the same payload
FrameMcu ==
    /\ frame.pc = "written"
    /\ frame' = [frame EXCEPT !.pc = "rx", !.src = "mcu",
                    !.wire = McuPacket(frame.dialect, frame.payload)]
    /\ UNCHANGED <<unit, sessionVars>>

\* the frame of the MCU suffers one fault on the way
FrameFault ==
    /\ frame.pc = "rx"
    /\ frame.src = "mcu"
    /\ frame.fault = "none"
    /\ \E f \in FrameFaults(frame.dialect, frame.payload, frame.wire) :
           frame' = [frame EXCEPT !.fault = f.kind, !.wire = f.bytes]
    /\ UNCHANGED <<unit, sessionVars>>

\* the host decodes what is in its input buffer
FrameRead ==
    /\ frame.pc = "rx"
    /\ frame' = [frame EXCEPT !.pc = "done",
                    !.result = read_packet(frame.dialect, frame.wire)]
    /\ UNCHANGED <<unit, sessionVars>>

\* the MCU sends the same bytes again without the two bytes of the start
\* magic, and the host decodes them
FrameReadBare ==
    /\ frame.pc = "done"
    /\ frame.src = "mcu"
    /\ Slice(frame.wire, 0, 2) = PACKET_START
    /\ Len(frame.wire) >= 3
    /\ frame' = [frame EXCEPT !.pc = "done_bare",
                    !.bare = read_packet(frame.dialect,
                                         Slice(frame.wire, 2, Len(frame.wire)))]
    /\ UNCHANGED <<unit, sessionVars>>

FrameNext ==
    FrameWrite \/ FrameLoopback \/ FrameMcu \/ FrameFault \/ FrameRead
        \/ FrameReadBare

-----------------------------------------------------------------------------
(* Session: inputs, serial link and exceptions *)

Families == {"stc89", "stc12a", "stc12", "stc15a", "stc15"}

\* Stc12AProtocol derives from Stc89Protocol and frames like it; the 15
\* classes derive from Stc12Protocol
Dialect(family) == IF family \in {"stc89", "stc12a"} THEN "A" ELSE "B"

\* a block size that takes the smallest image in one packet
PROGRAM_BLOCKSIZE_Whole(family) == 512

PROGRAM_BLOCKSIZE(family) == IF family \in {"stc15a", "stc15"} THEN 64 ELSE 128

\* --handshake and --baud defaults of the command line
BaudHandshake == 2400
BaudTransfer == 19200

NotReturned == -1

\* Python exception classes the session can raise
SerialErrors == {"SerialException", "SerialTimeoutException"}
IOErrors == SerialErrors \cup {"IOError"}
ProtocolErrors == {"StcFramingException", "StcProtocolException"}
OtherErrors == {"IndexError", "struct.error", "AssertionError",
                "ZeroDivisionError", "TypeError", "ValueError"}
Exceptions == IOErrors \cup ProtocolErrors \cup OtherErrors
                  \cup {"NameError", "KeyboardInterrupt"}

\* one serial operation of the host, with the baudrate the port had
Ev(op, step, data) ==
    [op |-> op, step |-> step, data |-> data, baud |-> ser.baudrate,
     res |-> ""]

\* the bytes left in the input buffer after used of them were read
Rest(buf, used) == Slice(buf, used, Len(buf))

\* positions of run inside its first try block
ConnectPcs == {"connect", "sync", "reack", "initialize"}

\* positions at which run has ended
EndPcs == {"idle", "returned", "raised"}

\* HandlerPc of a run that goes on where it was after an exception
HandlerPc_Retry == pc

\* where control goes when an exception is raised at the current position
HandlerPc == IF pc \in ConnectPcs THEN "except1" ELSE "except2"

-----------------------------------------------------------------------------
(* What the MCU may put on the wire in answer to a request *)

\* a well-formed frame with one fault: start magic, direction, end byte,
\* checksum, or the last two bytes missing
Corruptions(f) ==
    { [f EXCEPT ![1] = 0],
      [f EXCEPT ![3] = PACKET_HOST],
      [f EXCEPT ![Len(f)] = 0],
      [f EXCEPT ![Len(f) - 1] = (f[Len(f) - 1] + 1) % 256],
      SubSeq(f, 1, Len(f) - 2) }

\* payloads that deviate from the good payload g: empty, cut after the type
\* byte, cut in the middle, cut before the last byte, another type byte
Deviations(g) ==
    { <<>>, Slice(g, 0, 1), Slice(g, 0, Len(g) \div 2),
      Slice(g, 0, Len(g) - 1), [g EXCEPT ![1] = (g[1] + 1) % 256] }

\* transmissions considered for a request whose good answers are the
\* payloads in good (g is one of them); the empty transmission is silence
McuTx(dialect, g, good) ==
    {McuPacket(dialect, p) : p \in good \cup Deviations(g)}
        \cup Corruptions(McuPacket(dialect, g))
        \cup {<<>>}

-----------------------------------------------------------------------------
(* Session state *)

RECURSIVE GCD(_, _)
GCD(a, b) == IF b = 0 THEN a ELSE GCD(b, a % b)

\* Python floats are exact fractions n/d in lowest terms, n >= 0, d > 0
Frac(n, d) == [n |-> n \div GCD(n, d), d |-> d \div GCD(n, d)]

\* Python round() of the fraction n/d, d # 0 (ties go to even)
Round(n, d) ==
    LET sn == IF d < 0 THEN -n ELSE n
        sd == IF d < 0 THEN -d ELSE d
        an == IF sn < 0 THEN -sn ELSE sn
        q  == an \div sd
        r  == an % sd
        v  == IF 2 * r < sd THEN q
              ELSE IF 2 * r > sd THEN q + 1
              ELSE IF q % 2 = 0 THEN q ELSE q + 1
    IN  IF sn < 0 THEN -v ELSE v

\* Python abs()
Abs(x) == IF x < 0 THEN -x ELSE x

\* Python int() of the fraction n/d, d > 0: towards zero
Trunc(n, d) == IF n < 0 THEN -((-n) \div d) ELSE n \div d

\* attributes of the protocol object before connect
ProtocolInit ==
    [mcu_magic |-> 0, mcu_clock_hz |-> Frac(0, 1),
     bsl_version |-> 0, bsl_stepping |-> 0,
     options |-> <<>>, model |-> M("", 0, 0, 0, 0),
     uid |-> [set |-> FALSE, val |-> <<>>],
     cpu_6t |-> FALSE,
     trim_frequency |-> 0, trim_data |-> <<>>, freq_counter |-> Frac(0, 1),
     external_clock |-> FALSE, freq_count_24 |-> 0, trim_value |-> <<>>]

\* a trim value and a trim range
NoTrim == <<0, 0>>

LocalsInit == [i |-> 0, n |-> 0, faults |-> 0, program_trim |-> 0,
               trim_start |-> 0, user_trim |-> NoTrim, prog_trim |-> NoTrim]

NoFile == [given |-> FALSE, valid |-> TRUE, data |-> <<>>]

\* the image of the test suite, the bytes of "123456789"
TestImage == [given |-> TRUE, valid |-> TRUE,
              data |-> <<49, 50, 51, 52, 53, 54, 55, 56, 57>>]

\* an Intel HEX file that IHex.read rejects
BadHexImage == [given |-> TRUE, valid |-> FALSE, data |-> <<>>]

OptsIdle ==
    [version |-> FALSE, protocol |-> "stc89", code_image |-> NoFile,
     eeprom_image |-> NoFile, option |-> <<>>, trim |-> 0]

SessionIdle ==
    /\ opts = OptsIdle
    /\ pc = "idle"
    /\ exc = "none"
    /\ ret = NotReturned
    /\ uncaught = "none"
    /\ ser = [state |-> "none", baudrate |-> 0]
    /\ rx = <<>>
    /\ trace = <<>>
    /\ status_packet = <<>>
    /\ protocol = ProtocolInit
    /\ bindata = <<>>
    /\ locals = LocalsInit

\* FrameSpec: the framing experiment alone
\* the payloads handed to write_packet
FrameInit ==
    /\ frame \in {[FrameIdle EXCEPT !.pc = "init", !.dialect = d, !.payload = p] :
                      d \in Dialects, p \in FramePayloads}
    /\ unit = UnitIdle
    /\ SessionIdle

\* the magics handed to find_model
RegistryStart ==
    /\ frame = FrameIdle
    /\ unit \in {[RegistryInit EXCEPT !.magic = m] :
                    m \in RegistryMagics \cup UnknownMagics}
    /\ SessionIdle

RegistrySpec == RegistryStart /\ [][RegistryNext]_vars

FrameSpec == FrameInit /\ [][FrameNext]_vars

-----------------------------------------------------------------------------
(* Exchanges: write_packet, then read_packet, then the checks on the      *)
(* response.  Judge(response) is the code after read_packet: the exception*)
(* it raises ("none" when it raises none), and the state it leaves.        *)

EvAt(op, step, data, baud) ==
    [op |-> op, step |-> step, data |-> data, baud |-> baud, res |-> ""]

\* a call of read_packet, with how it ended ("ok", "framing", "timeout",
\* "interrupt") and the payload it returned
ReadEv(step, baud, kind, payload) ==
    [op |-> "read", step |-> step, data |-> payload, baud |-> baud,
     res |-> kind]

\* the code after read_packet ran through: control goes on at next
Done(next, proto, loc) ==
    [exc |-> "none", pc |-> next, protocol |-> proto, locals |-> loc,
     baud |-> 0]

\* the code after read_packet raised e
Fail(e) ==
    [exc |-> e, pc |-> pc, protocol |-> protocol, locals |-> locals,
     baud |-> 0]

\* the code after read_packet leaves the baudrate as it is
WithBaud_Stay(j, baud) == j

\* the code after read_packet first sets the baudrate
WithBaud(j, baud) == [j EXCEPT !.baud = baud]

\* the serial operations between write_packet and read_packet:
\* "baud" is ser.baudrate = baud_transfer, "pulse" is pulse(), "raw" is the
\* four 0x92 bytes of Stc15Protocol.calibrate
Between(mid, step, b0) ==
    CASE mid = "baud"  -> <<EvAt("baudrate", step, <<>>, BaudTransfer)>>
      [] mid = "pulse" -> <<EvAt("pulse", step, <<127>>, b0)>>
      [] mid = "raw"   -> <<EvAt("raw", step, <<146, 146, 146, 146>>, b0)>>
      [] OTHER         -> <<>>

Raise(e) ==
    /\ exc' = e
    /\ pc' = HandlerPc

Exchange(step, packet, mid, g, good, Judge(_)) ==
    LET b0 == ser.baudrate
        b1 == IF mid = "baud" THEN BaudTransfer ELSE b0
        wr == <<EvAt("packet", step, packet, b0)>> \o Between(mid, step, b0)
    IN  /\ UNCHANGED <<frame, unit, opts, ret, uncaught, status_packet, bindata>>
        /\ \/ \* KeyboardInterrupt after write_packet, before the read
              /\ trace' = trace \o <<EvAt("packet", step, packet, b0)>>
              /\ Raise("KeyboardInterrupt")
              /\ UNCHANGED <<ser, rx, protocol, locals>>
           \/ \* KeyboardInterrupt while read_packet waits for bytes
              /\ trace' = trace \o wr \o <<ReadEv(step, b1, "interrupt", <<>>)>>
              /\ ser' = [ser EXCEPT !.baudrate = b1]
              /\ Raise("KeyboardInterrupt")
              /\ UNCHANGED <<rx, protocol, locals>>
           \/ \E tx \in McuTx(Dialect(opts.protocol), g, good) :
              \E res \in {read_packet(Dialect(opts.protocol), rx \o tx)} :
                /\ mid = "pulse" => tx # <<>>
                /\ rx' = Rest(rx \o tx, res.used)
                /\ IF res.kind # "ok"
                   THEN /\ trace' = trace \o wr
                                \o <<ReadEv(step, b1, res.kind, <<>>)>>
                        /\ ser' = [ser EXCEPT !.baudrate = b1]
                        /\ Raise(IF res.kind = "timeout"
                                 THEN "SerialTimeoutException"
                                 ELSE "StcFramingException")
                        /\ UNCHANGED <<protocol, locals>>
                   ELSE \E j \in {Judge(res.payload)} :
                        /\ trace' = trace \o wr
                                \o <<ReadEv(step, b1, "ok", res.payload)>>
                                \o (IF j.baud = 0 THEN <<>>
                                    ELSE <<EvAt("baudrate", step, <<>>,
                                                j.baud)>>)
                        /\ ser' = [ser EXCEPT !.baudrate =
                                       IF j.baud = 0 THEN b1 ELSE j.baud]
                        /\ protocol' = j.protocol
                        /\ locals' = j.locals
                        /\ IF j.exc = "none"
                           THEN /\ pc' = j.pc
                                /\ exc' = exc
                           ELSE Raise(j.exc)

\* CheckType without the comparison of the type byte
CheckType_AnyType(response, type, rest) ==
    IF Len(response) < 1 THEN Fail("IndexError") ELSE rest

\* "if response[0] != type: raise StcProtocolException", then the rest
CheckType(response, type, rest) ==
    IF Len(response) < 1 THEN Fail("IndexError")
    ELSE IF response[1] # type THEN Fail("StcProtocolException")
    ELSE rest

\* a step that raises before it writes anything
RaiseOnly(e) ==
    /\ Raise(e)
    /\ UNCHANGED <<frame, unit, opts, ret, uncaught, ser, rx, trace,
                   status_packet, protocol, bindata, locals>>

-----------------------------------------------------------------------------
(* Utils and option codecs *)

RECURSIVE BitAnd(_, _)
BitAnd(a, b) ==
    IF a = 0 \/ b = 0 THEN 0
    ELSE (a % 2) * (b % 2) + 2 * BitAnd(a \div 2, b \div 2)

RECURSIVE BitOr(_, _)
BitOr(a, b) ==
    IF a = 0 THEN b
    ELSE IF b = 0 THEN a
    ELSE Max(a % 2, b % 2) + 2 * BitOr(a \div 2, b \div 2)

\* option value strings of the model: what print shows for a bool, the
\* names the enumerations use, decimal integers inside and outside the
\* ranges, and strings no option knows
OptionValues ==
    {"True", "False", "true", "1", "0", "", "bogus",
     "external", "internal", "high", "low", "short", "long",
     "normal", "push-pull", "mid", "unknown",
     "2", "3", "7", "8", "256", "300", "4096", "512", "65024", "65280"}

\* integers whose decimal form occurs as an option value: small ones, the
\* powers of two of the prescalers and delays, and the multiples of 256 a
\* byte can stand for
IntCandidates ==
    (0..8) \cup {16, 32, 64, 128, 300, 4096, 8192, 16384, 32768}
        \cup {256 * b : b \in 0..255}

\* the decimal strings of these integers, with the integer each stands for
IntTable == [v \in {ToString(n) : n \in IntCandidates} |->
                CHOOSE n \in IntCandidates : ToString(n) = v]

\* int(val, 0) of a string of the model, -1 when int() raises ValueError
IntOf(val) == IF val \in DOMAIN IntTable THEN IntTable[val] ELSE -1

\* first decimal digit of n >= 0
RECURSIVE LeadDigit(_)
LeadDigit(n) == IF n < 10 THEN n ELSE LeadDigit(n \div 10)

\* val[0].lower() of a non-empty string of the model
FirstLower(val) ==
    IF IntOf(val) >= 0 THEN ToString(LeadDigit(IntOf(val)))
    ELSE CASE val \in {"true", "True"}  -> "t"
           [] val = "False"             -> "f"
           [] val = "external"          -> "e"
           [] val = "internal"          -> "i"
           [] val = "high"              -> "h"
           [] val \in {"low", "long"}   -> "l"
           [] val = "bogus"             -> "b"
           [] val = "short"             -> "s"
           [] val = "normal"            -> "n"
           [] val = "push-pull"         -> "p"
           [] val = "mid"               -> "m"
           [] val = "unknown"           -> "u"
           [] OTHER                     -> ""

\* Utils.to_bool of a string
to_bool(val) ==
    IF val = "" THEN FALSE
    ELSE FirstLower(val) = "t" \/ FirstLower(val) = "1"

\* SetError of a set function that has cleared the MSR before it raises
SetError_Cleared(msr) == [raised |-> TRUE, msr |-> [k \in DOMAIN msr |-> 0]]

\* result of a set function: the MSR bytes, or ValueError
SetOk(msr) == [raised |-> FALSE, msr |-> msr]
SetError(msr) == [raised |-> TRUE, msr |-> msr]

\* SetBits that writes the byte without keeping the bits of other options
SetBits_WholeByte(msr, k, keep, bits) ==
    [raised |-> FALSE, msr |-> [msr EXCEPT ![k + 1] = bits]]

\* msr[k] &= keep; msr[k] |= bits   (k is the Python index)
SetBits(msr, k, keep, bits) ==
    SetOk([msr EXCEPT ![k + 1] = BitOr(BitAnd(msr[k + 1], keep), bits)])

\* Stc89Option: the option byte is held as a one byte string
Stc89Option_set(msr, name, val) ==
    CASE name = "cpu_6t_enabled" ->
            SetBits(msr, 0, 254, IF ~to_bool(val) THEN 1 ELSE 0)
      [] name = "bsl_pindetect_enabled" ->
            SetBits(msr, 0, 251, IF ~to_bool(val) THEN 4 ELSE 0)
      [] name = "eeprom_erase_enabled" ->
            SetBits(msr, 0, 247, IF ~to_bool(val) THEN 8 ELSE 0)
      [] name = "clock_gain" ->
            IF val \notin {"low", "high"} THEN SetError(msr)
            ELSE SetBits(msr, 0, 239, IF val = "high" THEN 16 ELSE 0)
      [] name = "ale_enabled" ->
            SetBits(msr, 0, 223, IF to_bool(val) THEN 32 ELSE 0)
      [] name = "xram_enabled" ->
            SetBits(msr, 0, 191, IF to_bool(val) THEN 64 ELSE 0)
      [] name = "watchdog_por_enabled" ->
            SetBits(msr, 0, 127, IF ~to_bool(val) THEN 128 ELSE 0)
      [] OTHER -> SetError(msr)

\* wd_vals of the set_watchdog_prescale functions: 2 ** (k + 1) -> k
WdVal(n) ==
    CASE n = 2 -> 0 [] n = 4 -> 1 [] n = 8 -> 2 [] n = 16 -> 3
      [] n = 32 -> 4 [] n = 64 -> 5 [] n = 128 -> 6 [] n = 256 -> 7
      [] OTHER -> -1

\* osc_vals of Stc12Option.set_osc_stable_delay
OscVal(n) ==
    CASE n = 4096 -> 0 [] n = 8192 -> 1 [] n = 16384 -> 2 [] n = 32768 -> 3
      [] OTHER -> -1

\* Stc12AOption, five MSR bytes
Stc12AOption_set(msr, name, val) ==
    CASE name = "low_voltage_detect" ->
            SetBits(msr, 4, 191, IF ~to_bool(val) THEN 64 ELSE 0)
      [] name = "clock_source" ->
            IF val \notin {"internal", "external"} THEN SetError(msr)
            ELSE SetBits(msr, 0, 253, IF val = "external" THEN 2 ELSE 0)
      [] name = "watchdog_por_enabled" ->
            SetBits(msr, 1, 223, IF ~to_bool(val) THEN 32 ELSE 0)
      [] name = "watchdog_stop_idle" ->
            SetBits(msr, 1, 247, IF ~to_bool(val) THEN 8 ELSE 0)
      [] name = "watchdog_prescale" ->
            IF WdVal(IntOf(val)) < 0 THEN SetError(msr)
            ELSE SetBits(msr, 1, 248, WdVal(IntOf(val)))
      [] name = "eeprom_erase_enabled" ->
            SetBits(msr, 2, 253, IF ~to_bool(val) THEN 2 ELSE 0)
      [] name = "bsl_pindetect_enabled" ->
            SetBits(msr, 2, 254, IF ~to_bool(val) THEN 1 ELSE 0)
      [] OTHER -> SetError(msr)

\* Stc12Option, four MSR bytes
Stc12Option_set(msr, name, val) ==
    CASE name = "reset_pin_enabled" ->
            SetBits(msr, 0, 254, IF to_bool(val) THEN 1 ELSE 0)
      [] name = "low_voltage_detect" ->
            SetBits(msr, 0, 191, IF ~to_bool(val) THEN 64 ELSE 0)
      [] name = "oscillator_stable_delay" ->
            IF OscVal(IntOf(val)) < 0 THEN SetError(msr)
            ELSE SetBits(msr, 0, 207, OscVal(IntOf(val)) * 16)
      [] name = "power_on_reset_delay" ->
            IF val \notin {"short", "long"} THEN SetError(msr)
            ELSE SetBits(msr, 1, 127, IF val = "short" THEN 128 ELSE 0)
      [] name = "clock_gain" ->
            IF val \notin {"low", "high"} THEN SetError(msr)
            ELSE SetBits(msr, 1, 191, IF val = "high" THEN 64 ELSE 0)
      [] name = "clock_source" ->
            IF val \notin {"internal", "external"} THEN SetError(msr)
            ELSE SetBits(msr, 1, 253, IF val = "external" THEN 2 ELSE 0)
      [] name = "watchdog_por_enabled" ->
            SetBits(msr, 2, 223, IF ~to_bool(val) THEN 32 ELSE 0)
      [] name = "watchdog_stop_idle" ->
            SetBits(msr, 2, 247, IF ~to_bool(val) THEN 8 ELSE 0)
      [] name = "watchdog_prescale" ->
            IF WdVal(IntOf(val)) < 0 THEN SetError(msr)
            ELSE SetBits(msr, 2, 248, WdVal(IntOf(val)))
      [] name = "eeprom_erase_enabled" ->
            SetBits(msr, 3, 253, IF ~to_bool(val) THEN 2 ELSE 0)
      [] name = "bsl_pindetect_enabled" ->
            SetBits(msr, 3, 254, IF ~to_bool(val) THEN 1 ELSE 0)
      [] OTHER -> SetError(msr)

\* Stc15AOption, thirteen MSR bytes
Stc15AOption_set(msr, name, val) ==
    CASE name = "reset_pin_enabled" ->
            SetBits(msr, 0, 239, IF to_bool(val) THEN 16 ELSE 0)
      [] name = "watchdog_por_enabled" ->
            SetBits(msr, 2, 223, IF ~to_bool(val) THEN 32 ELSE 0)
      [] name = "watchdog_stop_idle" ->
            SetBits(msr, 2, 247, IF ~to_bool(val) THEN 8 ELSE 0)
      [] name = "watchdog_prescale" ->
            IF WdVal(IntOf(val)) < 0 THEN SetError(msr)
            ELSE SetBits(msr, 2, 248, WdVal(IntOf(val)))
      [] name = "low_voltage_reset" ->
            SetBits(msr, 1, 191, IF to_bool(val) THEN 64 ELSE 0)
      [] name = "low_voltage_threshold" ->
            IF IntOf(val) \notin 0..7 THEN SetError(msr)
            ELSE SetBits(msr, 1, 248, IntOf(val))
      [] name = "eeprom_lvd_inhibit" ->
            SetBits(msr, 1, 127, IF to_bool(val) THEN 128 ELSE 0)
      [] name = "eeprom_erase_enabled" ->
            SetBits(msr, 12, 253, IF ~to_bool(val) THEN 2 ELSE 0)
      [] name = "bsl_pindetect_enabled" ->
            SetBits(msr, 12, 254, IF ~to_bool(val) THEN 1 ELSE 0)
      [] OTHER -> SetError(msr)

\* Stc15Option, four MSR bytes
Stc15Option_set(msr, name, val) ==
    CASE name = "reset_pin_enabled" ->
            SetBits(msr, 2, 239, IF ~to_bool(val) THEN 16 ELSE 0)
      [] name = "clock_source" ->
            IF val \notin {"internal", "external"} THEN SetError(msr)
            ELSE SetBits(msr, 2, 254, IF val = "internal" THEN 1 ELSE 0)
      [] name = "clock_gain" ->
            IF val \notin {"low", "high"} THEN SetError(msr)
            ELSE SetBits(msr, 2, 253, IF val = "high" THEN 2 ELSE 0)
      [] name = "watchdog_por_enabled" ->
            SetBits(msr, 0, 223, IF ~to_bool(val) THEN 32 ELSE 0)
      [] name = "watchdog_stop_idle" ->
            SetBits(msr, 0, 247, IF ~to_bool(val) THEN 8 ELSE 0)
      [] name = "watchdog_prescale" ->
            IF WdVal(IntOf(val)) < 0 THEN SetError(msr)
            ELSE SetBits(msr, 0, 248, WdVal(IntOf(val)))
      [] name = "low_voltage_reset" ->
            SetBits(msr, 1, 191, IF ~to_bool(val) THEN 64 ELSE 0)
      [] name = "eeprom_lvd_inhibit" ->
            SetBits(msr, 1, 127, IF to_bool(val) THEN 128 ELSE 0)
      [] name = "low_voltage_threshold" ->
            IF IntOf(val) \notin 0..7 THEN SetError(msr)
            ELSE SetBits(msr, 1, 248, IntOf(val))
      [] name = "eeprom_erase_enabled" ->
            SetBits(msr, 3, 253, IF to_bool(val) THEN 2 ELSE 0)
      [] name = "bsl_pindetect_enabled" ->
            SetBits(msr, 3, 254, IF ~to_bool(val) THEN 1 ELSE 0)
      [] name = "power_on_reset_delay" ->
            IF val \notin {"short", "long"} THEN SetError(msr)
            ELSE SetBits(msr, 2, 127, IF val = "long" THEN 128 ELSE 0)
      [] name = "rstout_por_state" ->
            SetBits(msr, 2, 247, IF to_bool(val) THEN 8 ELSE 0)
      [] name = "uart_passthrough" ->
            SetBits(msr, 2, 191, IF to_bool(val) THEN 64 ELSE 0)
      [] name = "uart_pin_mode" ->
            IF val \notin {"normal", "push-pull"} THEN SetError(msr)
            ELSE SetBits(msr, 2, 223, IF val # "" THEN 32 ELSE 0)
      [] OTHER -> SetError(msr)

\* BaseOption.set_option of the family's codec
set_option(family, msr, name, val) ==
    CASE family = "stc89"  -> Stc89Option_set(msr, name, val)
      [] family = "stc12a" -> Stc12AOption_set(msr, name, val)
      [] family = "stc12"  -> Stc12Option_set(msr, name, val)
      [] family = "stc15a" -> Stc15AOption_set(msr, name, val)
      [] OTHER             -> Stc15Option_set(msr, name, val)

\* one --option argument as opt.split("=", 1) returns it: kv[0] and, when
\* the argument holds a "=", kv[1]
Opt(name, val) == [eq |-> TRUE, name |-> name, val |-> val]
OptNoEq(name) == [eq |-> FALSE, name |-> name, val |-> ""]

\* emit_options that passes over every override
emit_options_Lenient(family, msr, options, k) ==
    [raised |-> FALSE, msr |-> msr]

\* StcGal.emit_options from option k on: the MSR after the options that
\* were set, and whether NameError was raised
RECURSIVE emit_options(_, _, _, _)
emit_options(family, msr, options, k) ==
    IF k > Len(options) THEN [raised |-> FALSE, msr |-> msr]
    ELSE IF ~options[k].eq THEN [raised |-> TRUE, msr |-> msr]
    ELSE LET r == set_option(family, msr, options[k].name, options[k].val)
         IN  IF r.raised THEN [raised |-> TRUE, msr |-> r.msr]
             ELSE emit_options(family, r.msr, options, k + 1)

-----------------------------------------------------------------------------
(* Option codecs, continued: the get functions of protocols.py, Stc15Option *)
(* and Stc8Option of options.py, and BaseOption                            *)

\* str() of a bool, as print shows it
Bool(b) == IF b THEN "True" ELSE "False"

\* bool(msr[k] & m)
Bit(msr, k, m) == BitAnd(msr[k + 1], m) # 0

\* 2 ** n
RECURSIVE Pow2(_)
Pow2(n) == IF n = 0 THEN 1 ELSE 2 * Pow2(n - 1)

Stc89Option_get(msr, name) ==
    CASE name = "cpu_6t_enabled"        -> Bool(~Bit(msr, 0, 1))
      [] name = "bsl_pindetect_enabled" -> Bool(~Bit(msr, 0, 4))
      [] name = "eeprom_erase_enabled"  -> Bool(~Bit(msr, 0, 8))
      [] name = "clock_gain" -> IF Bit(msr, 0, 16) THEN "high" ELSE "low"
      [] name = "ale_enabled"           -> Bool(Bit(msr, 0, 32))
      [] name = "xram_enabled"          -> Bool(Bit(msr, 0, 64))
      [] name = "watchdog_por_enabled"  -> Bool(~Bit(msr, 0, 128))

Stc12AOption_get(msr, name) ==
    CASE name = "low_voltage_detect"    -> Bool(~Bit(msr, 4, 64))
      [] name = "clock_source" ->
            IF Bit(msr, 0, 2) THEN "external" ELSE "internal"
      [] name = "watchdog_por_enabled"  -> Bool(~Bit(msr, 1, 32))
      [] name = "watchdog_stop_idle"    -> Bool(~Bit(msr, 1, 8))
      [] name = "watchdog_prescale" ->
            ToString(Pow2(BitAnd(msr[2], 7) + 1))
      [] name = "eeprom_erase_enabled"  -> Bool(~Bit(msr, 2, 2))
      [] name = "bsl_pindetect_enabled" -> Bool(~Bit(msr, 2, 1))

Stc12Option_get(msr, name) ==
    CASE name = "reset_pin_enabled"     -> Bool(Bit(msr, 0, 1))
      [] name = "low_voltage_detect"    -> Bool(~Bit(msr, 0, 64))
      [] name = "oscillator_stable_delay" ->
            ToString(Pow2(BitAnd(msr[1] \div 16, 3) + 12))
      [] name = "power_on_reset_delay" ->
            IF ~Bit(msr, 1, 128) THEN "long" ELSE "short"
      [] name = "clock_gain" -> IF Bit(msr, 1, 64) THEN "high" ELSE "low"
      [] name = "clock_source" ->
            IF Bit(msr, 1, 2) THEN "external" ELSE "internal"
      [] name = "watchdog_por_enabled"  -> Bool(~Bit(msr, 2, 32))
      [] name = "watchdog_stop_idle"    -> Bool(~Bit(msr, 2, 8))
      [] name = "watchdog_prescale" ->
            ToString(Pow2(BitAnd(msr[3], 7) + 1))
      [] name = "eeprom_erase_enabled"  -> Bool(~Bit(msr, 3, 2))
      [] name = "bsl_pindetect_enabled" -> Bool(~Bit(msr, 3, 1))

Stc15AOption_get(msr, name) ==
    CASE name = "reset_pin_enabled"     -> Bool(Bit(msr, 0, 16))
      [] name = "watchdog_por_enabled"  -> Bool(~Bit(msr, 2, 32))
      [] name = "watchdog_stop_idle"    -> Bool(~Bit(msr, 2, 8))
      [] name = "watchdog_prescale" ->
            ToString(Pow2(BitAnd(msr[3], 7) + 1))
      [] name = "low_voltage_reset"     -> Bool(Bit(msr, 1, 64))
      [] name = "low_voltage_threshold" -> ToString(BitAnd(msr[2], 7))
      [] name = "eeprom_lvd_inhibit"    -> Bool(Bit(msr, 1, 128))
      [] name = "eeprom_erase_enabled"  -> Bool(~Bit(msr, 12, 2))
      [] name = "bsl_pindetect_enabled" -> Bool(~Bit(msr, 12, 1))

Stc15Option_get(msr, name) ==
    CASE name = "reset_pin_enabled"     -> Bool(~Bit(msr, 2, 16))
      [] name = "clock_source" ->
            IF Bit(msr, 2, 1) THEN "internal" ELSE "external"
      [] name = "clock_gain" -> IF Bit(msr, 2, 2) THEN "high" ELSE "low"
      [] name = "watchdog_por_enabled"  -> Bool(~Bit(msr, 0, 32))
      [] name = "watchdog_stop_idle"    -> Bool(~Bit(msr, 0, 8))
      [] name = "watchdog_prescale" ->
            ToString(Pow2(BitAnd(msr[1], 7) + 1))
      [] name = "low_voltage_reset"     -> Bool(~Bit(msr, 1, 64))
      [] name = "low_voltage_threshold" -> ToString(BitAnd(msr[2], 7))
      [] name = "eeprom_lvd_inhibit"    -> Bool(Bit(msr, 1, 128))
      [] name = "eeprom_erase_enabled"  -> Bool(Bit(msr, 3, 2))
      [] name = "bsl_pindetect_enabled" -> Bool(~Bit(msr, 3, 1))
      [] name = "power_on_reset_delay" ->
            IF Bit(msr, 2, 128) THEN "long" ELSE "short"
      [] name = "rstout_por_state" ->
            IF Bit(msr, 2, 8) THEN "high" ELSE "low"
      [] name = "uart_passthrough"      -> Bool(Bit(msr, 2, 64))
      [] name = "uart_pin_mode" ->
            IF Bit(msr, 2, 32) THEN "push-pull" ELSE "normal"

\* options.py names three options of Stc15Option differently
OldName(name) ==
    CASE name = "por_reset_delay"   -> "power_on_reset_delay"
      [] name = "uart2_passthrough" -> "uart_passthrough"
      [] name = "uart2_pin_mode"    -> "uart_pin_mode"
      [] name \in {"power_on_reset_delay", "uart_passthrough", "uart_pin_mode"}
                                    -> "renamed"
      [] OTHER                      -> name

\* Stc15Option of options.py: the functions of protocols.py under the names
\* of options.py, and cpu_core_voltage when there is a fifth MSR byte
options_Stc15Option_set(msr, name, val) ==
    IF name = "cpu_core_voltage" /\ Len(msr) > 4
    THEN CASE val = "low"  -> SetOk([msr EXCEPT ![5] = 234])
           [] val = "mid"  -> SetOk([msr EXCEPT ![5] = 247])
           [] val = "high" -> SetOk([msr EXCEPT ![5] = 253])
           [] OTHER        -> SetError(msr)
    ELSE Stc15Option_set(msr, OldName(name), val)

options_Stc15Option_get(msr, name) ==
    IF name = "cpu_core_voltage"
    THEN CASE msr[5] = 234 -> "low"
           [] msr[5] = 247 -> "mid"
           [] msr[5] = 253 -> "high"
           [] OTHER        -> "unknown"
    ELSE Stc15Option_get(msr, OldName(name))

\* Stc8Option of options.py, five MSR bytes
options_Stc8Option_set(msr, name, val) ==
    CASE name = "reset_pin_enabled" ->
            SetBits(msr, 2, 239, IF ~to_bool(val) THEN 16 ELSE 0)
      [] name = "clock_gain" ->
            IF val \notin {"low", "high"} THEN SetError(msr)
            ELSE SetBits(msr, 1, 253, IF val = "high" THEN 2 ELSE 0)
      [] name = "watchdog_por_enabled" ->
            SetBits(msr, 3, 223, IF ~to_bool(val) THEN 32 ELSE 0)
      [] name = "watchdog_stop_idle" ->
            SetBits(msr, 3, 247, IF ~to_bool(val) THEN 8 ELSE 0)
      [] name = "watchdog_prescale" ->
            IF WdVal(IntOf(val)) < 0 THEN SetError(msr)
            ELSE SetBits(msr, 3, 248, WdVal(IntOf(val)))
      [] name = "low_voltage_reset" ->
            SetBits(msr, 2, 191, IF ~to_bool(val) THEN 64 ELSE 0)
      [] name = "low_voltage_threshold" ->
            IF IntOf(val) \notin 0..3 THEN SetError(msr)
            ELSE SetBits(msr, 2, 252, 3 - IntOf(val))
      [] name = "eeprom_erase_enabled" ->
            SetBits(msr, 0, 253, IF to_bool(val) THEN 2 ELSE 0)
      [] name = "bsl_pindetect_enabled" ->
            SetBits(msr, 0, 254, IF ~to_bool(val) THEN 1 ELSE 0)
      [] name = "por_reset_delay" ->
            IF val \notin {"short", "long"} THEN SetError(msr)
            ELSE SetBits(msr, 1, 127, IF val = "long" THEN 128 ELSE 0)
      [] name = "rstout_por_state" ->
            SetBits(msr, 1, 247, IF to_bool(val) THEN 8 ELSE 0)
      [] name = "uart1_remap" ->
            SetBits(msr, 1, 191, IF to_bool(val) THEN 64 ELSE 0)
      [] name = "uart2_passthrough" ->
            SetBits(msr, 1, 239, IF to_bool(val) THEN 16 ELSE 0)
      [] name = "uart2_pin_mode" ->
            IF val \notin {"normal", "push-pull"} THEN SetError(msr)
            ELSE SetBits(msr, 1, 223, IF val = "push-pull" THEN 32 ELSE 0)
      [] name = "epwm_open_drain" ->
            SetBits(msr, 1, 251, IF to_bool(val) THEN 4 ELSE 0)
      [] name = "program_eeprom_split" ->
            IF IntOf(val) < 512 \/ IntOf(val) > 65024 \/ IntOf(val) % 512 # 0
            THEN SetError(msr)
            ELSE SetOk([msr EXCEPT ![5] = IntOf(val) \div 256])
      [] OTHER -> SetError(msr)

options_Stc8Option_get(msr, name) ==
    CASE name = "reset_pin_enabled"     -> Bool(~Bit(msr, 2, 16))
      [] name = "clock_gain" -> IF Bit(msr, 1, 2) THEN "high" ELSE "low"
      [] name = "watchdog_por_enabled"  -> Bool(~Bit(msr, 3, 32))
      [] name = "watchdog_stop_idle"    -> Bool(~Bit(msr, 3, 8))
      [] name = "watchdog_prescale" ->
            ToString(Pow2(BitAnd(msr[4], 7) + 1))
      [] name = "low_voltage_reset"     -> Bool(~Bit(msr, 2, 64))
      [] name = "low_voltage_threshold" -> ToString((3 - msr[3]) % 4)
      [] name = "eeprom_erase_enabled"  -> Bool(Bit(msr, 0, 2))
      [] name = "bsl_pindetect_enabled" -> Bool(~Bit(msr, 0, 1))
      [] name = "por_reset_delay" ->
            IF Bit(msr, 1, 128) THEN "long" ELSE "short"
      [] name = "rstout_por_state" ->
            IF Bit(msr, 1, 8) THEN "high" ELSE "low"
      [] name = "uart1_remap"           -> Bool(Bit(msr, 1, 64))
      [] name = "uart2_passthrough"     -> Bool(Bit(msr, 1, 16))
      [] name = "uart2_pin_mode" ->
            IF Bit(msr, 1, 32) THEN "push-pull" ELSE "normal"
      [] name = "epwm_open_drain"       -> Bool(Bit(msr, 1, 4))
      [] name = "program_eeprom_split"  -> ToString(msr[5] * 256)

-----------------------------------------------------------------------------

(* Codec experiment: an option object is built over MSR bytes; options are *)
(* set, read back, printed and round-tripped through the MSR bytes.        *)

Codecs ==
    {"Stc89Option", "Stc12AOption", "Stc12Option", "Stc15AOption",
     "Stc15Option", "options.Stc15Option", "options.Stc8Option"}

\* self.options of each class, in its order, with the MSR byte (Python
\* index) and the bits of it that the functions of the option work on
OptionTable(codec) ==
    CASE codec = "Stc89Option" ->
            << <<"cpu_6t_enabled", 0, 1>>, <<"bsl_pindetect_enabled", 0, 4>>,
               <<"eeprom_erase_enabled", 0, 8>>, <<"clock_gain", 0, 16>>,
               <<"ale_enabled", 0, 32>>, <<"xram_enabled", 0, 64>>,
               <<"watchdog_por_enabled", 0, 128>> >>
      [] codec = "Stc12AOption" ->
            << <<"low_voltage_detect", 4, 64>>, <<"clock_source", 0, 2>>,
               <<"watchdog_por_enabled", 1, 32>>, <<"watchdog_stop_idle", 1, 8>>,
               <<"watchdog_prescale", 1, 7>>, <<"eeprom_erase_enabled", 2, 2>>,
               <<"bsl_pindetect_enabled", 2, 1>> >>
      [] codec = "Stc12Option" ->
            << <<"reset_pin_enabled", 0, 1>>, <<"low_voltage_detect", 0, 64>>,
               <<"oscillator_stable_delay", 0, 48>>,
               <<"power_on_reset_delay", 1, 128>>, <<"clock_gain", 1, 64>>,
               <<"clock_source", 1, 2>>, <<"watchdog_por_enabled", 2, 32>>,
               <<"watchdog_stop_idle", 2, 8>>, <<"watchdog_prescale", 2, 7>>,
               <<"eeprom_erase_enabled", 3, 2>>,
               <<"bsl_pindetect_enabled", 3, 1>> >>
      [] codec = "Stc15AOption" ->
            << <<"reset_pin_enabled", 0, 16>>, <<"watchdog_por_enabled", 2, 32>>,
               <<"watchdog_stop_idle", 2, 8>>, <<"watchdog_prescale", 2, 7>>,
               <<"low_voltage_reset", 1, 64>>, <<"low_voltage_threshold", 1, 7>>,
               <<"eeprom_lvd_inhibit", 1, 128>>, <<"eeprom_erase_enabled", 12, 2>>,
               <<"bsl_pindetect_enabled", 12, 1>> >>
      [] codec \in {"Stc15Option", "options.Stc15Option"} ->
            << <<"reset_pin_enabled", 2, 16>>, <<"clock_source", 2, 1>>,
               <<"clock_gain", 2, 2>>, <<"watchdog_por_enabled", 0, 32>>,
               <<"watchdog_stop_idle", 0, 8>>, <<"watchdog_prescale", 0, 7>>,
               <<"low_voltage_reset", 1, 64>>, <<"low_voltage_threshold", 1, 7>>,
               <<"eeprom_lvd_inhibit", 1, 128>>, <<"eeprom_erase_enabled", 3, 2>>,
               <<"bsl_pindetect_enabled", 3, 1>> >>
            \o (IF codec = "Stc15Option"
                THEN << <<"power_on_reset_delay", 2, 128>>,
                        <<"rstout_por_state", 2, 8>>,
                        <<"uart_passthrough", 2, 64>>,
                        <<"uart_pin_mode", 2, 32>> >>
                ELSE << <<"por_reset_delay", 2, 128>>,
                        <<"rstout_por_state", 2, 8>>,
                        <<"uart2_passthrough", 2, 64>>,
                        <<"uart2_pin_mode", 2, 32>>,
                        <<"cpu_core_voltage", 4, 255>> >>)
      [] codec = "options.Stc8Option" ->
            << <<"reset_pin_enabled", 2, 16>>, <<"clock_gain", 1, 2>>,
               <<"watchdog_por_enabled", 3, 32>>, <<"watchdog_stop_idle", 3, 8>>,
               <<"watchdog_prescale", 3, 7>>, <<"low_voltage_reset", 2, 64>>,
               <<"low_voltage_threshold", 2, 3>>, <<"eeprom_erase_enabled", 0, 2>>,
               <<"bsl_pindetect_enabled", 0, 1>>, <<"por_reset_delay", 1, 128>>,
               <<"rstout_por_state", 1, 8>>, <<"uart1_remap", 1, 64>>,
               <<"uart2_passthrough", 1, 16>>, <<"uart2_pin_mode", 1, 32>>,
               <<"epwm_open_drain", 1, 4>>,
               <<"program_eeprom_split", 4, 255>> >>

\* self.options of every class
Options == [codec \in Codecs |-> OptionTable(codec)]

\* the option names of every class
Names == [codec \in Codecs |->
             {Options[codec][k][1] : k \in 1..Len(Options[codec])}]

\* the option names of a class
OptionNames(codec) == Names[codec]

\* the set function of the class for option name
Option_set(codec, msr, name, val) ==
    CASE codec = "Stc89Option"         -> Stc89Option_set(msr, name, val)
      [] codec = "Stc12AOption"        -> Stc12AOption_set(msr, name, val)
      [] codec = "Stc12Option"         -> Stc12Option_set(msr, name, val)
      [] codec = "Stc15AOption"        -> Stc15AOption_set(msr, name, val)
      [] codec = "Stc15Option"         -> Stc15Option_set(msr, name, val)
      [] codec = "options.Stc15Option" -> options_Stc15Option_set(msr, name, val)
      [] codec = "options.Stc8Option"  -> options_Stc8Option_set(msr, name, val)

\* the get function of the class for option name, called as print calls it
Option_get(codec, msr, name) ==
    CASE codec = "Stc89Option"         -> Stc89Option_get(msr, name)
      [] codec = "Stc12AOption"        -> Stc12AOption_get(msr, name)
      [] codec = "Stc12Option"         -> Stc12Option_get(msr, name)
      [] codec = "Stc15AOption"        -> Stc15AOption_get(msr, name)
      [] codec = "Stc15Option"         -> Stc15Option_get(msr, name)
      [] codec = "options.Stc15Option" -> options_Stc15Option_get(msr, name)
      [] codec = "options.Stc8Option"  -> options_Stc8Option_get(msr, name)

\* BaseOption.set_option: the set function of the first entry with that
\* name, ValueError("unknown") when there is none
BaseOption_set_option(codec, msr, name, val) ==
    IF name \notin OptionNames(codec)
    THEN [error |-> "unknown", msr |-> msr]
    ELSE LET r == Option_set(codec, msr, name, val)
         IN  [error |-> IF r.raised THEN "value" ELSE "none", msr |-> r.msr]

\* BaseOption.get_option: get_func(name) hands the name to a function that
\* takes none, which is a TypeError; ValueError("unknown") without entry
BaseOption_get_option(codec, msr, name) ==
    IF name \notin OptionNames(codec)
    THEN [error |-> "unknown", value |-> ""]
    ELSE [error |-> "TypeError", value |-> ""]

\* BaseOption.print: the lines "name=value" as pairs
BaseOption_print(codec, msr) ==
    [k \in 1..Len(Options[codec]) |->
        <<Options[codec][k][1], Option_get(codec, msr, Options[codec][k][1])>>]

\* bound: options set one after the other on one object
MaxSets == 2

\* number of MSR bytes each class is built over
MsrLen(codec) ==
    CASE codec = "Stc89Option"  -> 1
      [] codec = "Stc12AOption" -> 5
      [] codec = "Stc12Option"  -> 4
      [] codec = "Stc15AOption" -> 13
      [] codec = "Stc15Option"  -> 4
      [] OTHER                  -> 5

\* MSR contents an object is built over: all bits set (an MCU as shipped)
\* and alternating bits
MsrInits(codec) ==
    {Fill(MsrLen(codec), 255),
     [k \in 1..MsrLen(codec) |-> IF k % 2 = 1 THEN 165 ELSE 90]}

\* values tried for option name: every value when the name is unknown
\* anyway, else what the option shows now, and values of each kind
TryValues(codec, msr, name) ==
    IF name \notin OptionNames(codec) THEN {"True", "bogus"}
    ELSE {Option_get(codec, msr, name), "True", "False", "high", "low",
          "internal", "3", "8", "512", "bogus"}

CodecNew ==
    [exp |-> "codec", pc |-> "ready", codec |-> "", msr0 |-> <<>>,
     msr |-> <<>>, touched |-> {}, sets |-> 0, op |-> "none", name |-> "",
     val |-> "", prev |-> <<>>, error |-> "none", got |-> "",
     printed |-> <<>>]

\* forget the last operation
Ready(u) ==
    [u EXCEPT !.pc = "ready", !.op = "none", !.name = "", !.val = "",
              !.prev = <<>>, !.error = "none", !.got = "", !.printed = <<>>]

\* a new object of the class over the bytes get_msr returns
Rebuilt(u) ==
    [u EXCEPT !.pc = "built", !.msr0 = u.msr, !.touched = {}, !.sets = 0]

\* options.set_option(name, val)
CodecSet ==
    /\ unit.exp = "codec"
    /\ unit.pc = "ready"
    /\ unit.sets < MaxSets
    /\ \E name \in OptionNames(unit.codec) \cup {"bogus_option", "cpu_core_voltage"} :
       \E val \in TryValues(unit.codec, unit.msr, name) :
       \E r \in {BaseOption_set_option(unit.codec, unit.msr, name, val)} :
           unit' = [unit EXCEPT !.pc = "set", !.op = "set", !.name = name,
                                !.val = val, !.prev = unit.msr,
                                !.msr = r.msr, !.error = r.error,
                                !.sets = @ + 1,
                                !.touched = IF r.error = "none"
                                            THEN @ \cup {name} ELSE @]
    /\ UNCHANGED <<frame, sessionVars>>

\* the object is used further
CodecContinue ==
    /\ unit.exp = "codec"
    /\ unit.pc = "set"
    /\ unit' = Ready(unit)
    /\ UNCHANGED <<frame, sessionVars>>

\* the MSR is taken with get_msr and an object of the same class is built
\* over it, to be read
CodecRebuild ==
    /\ unit.exp = "codec"
    /\ unit.pc = "ready"
    /\ unit' = Rebuilt(unit)
    /\ UNCHANGED <<frame, sessionVars>>

\* options.get_option(name)
CodecGet ==
    /\ unit.exp = "codec"
    /\ unit.pc = "built"
    /\ \E name \in OptionNames(unit.codec) \cup {"bogus_option"} :
       \E r \in {BaseOption_get_option(unit.codec, unit.msr, name)} :
           unit' = [unit EXCEPT !.pc = "got", !.op = "get", !.name = name,
                                !.error = r.error, !.got = r.value]
    /\ UNCHANGED <<frame, sessionVars>>

\* options.print()
CodecPrint ==
    /\ unit.exp = "codec"
    /\ unit.pc = "built"
    /\ unit' = [unit EXCEPT !.pc = "printed", !.op = "print",
                            !.printed = BaseOption_print(unit.codec, unit.msr)]
    /\ UNCHANGED <<frame, sessionVars>>

\* an option is set to the value it shows, the MSR is taken with get_msr,
\* an object of the same class is built over it and shows the option again
CodecRoundTrip ==
    /\ unit.exp = "codec"
    /\ unit.pc = "built"
    /\ \E name \in OptionNames(unit.codec) :
       \E v \in {Option_get(unit.codec, unit.msr, name)} :
       \E r \in {BaseOption_set_option(unit.codec, unit.msr, name, v)} :
           unit' = [unit EXCEPT !.pc = "tripped", !.op = "roundtrip",
                                !.name = name, !.val = v, !.prev = unit.msr,
                                !.msr = r.msr, !.error = r.error,
                                !.got = Option_get(unit.codec, r.msr, name)]
    /\ UNCHANGED <<frame, sessionVars>>

CodecNext ==
    CodecSet \/ CodecContinue \/ CodecRebuild \/ CodecGet \/ CodecPrint
        \/ CodecRoundTrip

\* the MSR bytes the option objects are built over
CodecInit ==
    /\ frame = FrameIdle
    /\ unit \in {[CodecNew EXCEPT !.codec = c, !.msr0 = m, !.msr = m] :
                    c \in Codecs, m \in UNION {MsrInits(d) : d \in Codecs}}
    /\ Len(unit.msr) = MsrLen(unit.codec)
    /\ SessionIdle

CodecSpec == CodecInit /\ [][CodecNext]_vars

-----------------------------------------------------------------------------

(* StcGal.run, first try block: connect and initialize *)

\* bound: faulty transmissions the MCU makes while the host synchronizes
\* (locals.faults counts the ones it has still to make)
MaxSyncFaults == 1

\* sum of the n 16 bit frequency counters that start at packet[1]
RECURSIVE CounterSum(_, _)
CounterSum(packet, n) ==
    IF n = 0 THEN 0
    ELSE CounterSum(packet, n - 1) + UnpackH(Slice(packet, 2 * n - 1, 2 * n + 1))

\* a full status packet of each family, as a powered-up MCU sends it
\* 89: STC89C52RC, 11.0592 MHz, 12T, BSL 4.3C, MSR 0xfd
Status89 ==
    <<0>> \o <<10, 128, 10, 128, 10, 128, 10, 128,
               10, 128, 10, 128, 10, 128, 10, 128>>
          \o <<67, 67, 253, 240, 2>>

\* 12A: STC12C2052AD, 11.0592 MHz, BSL 6.2I, five option bytes
Status12A ==
    <<0>> \o <<10, 128, 10, 128, 10, 128, 10, 128,
               10, 128, 10, 128, 10, 128, 10, 128>>
          \o <<98, 73, 0, 242, 18, 0>>
          \o <<255, 247, 255, 255, 255>>

\* 12: STC12C5A60S2, 11.0592 MHz, BSL 6.2I, four option bytes
Status12 ==
    <<80>> \o <<10, 128, 10, 128, 10, 128, 10, 128,
                10, 128, 10, 128, 10, 128, 10, 128>>
           \o <<98, 73, 0, 209, 126, 0>>
           \o <<255, 255, 247, 255>>

\* 15A: STC15F104E, 11.0592 MHz, BSL 6.7T, thirteen option bytes at
\* packet[23:36], trim data at packet[51:58]
Status15A ==
    <<80>> \o <<10, 128, 10, 128, 10, 128, 10, 128>> \o Fill(8, 0)
           \o <<103, 84, 0, 242, 148, 0>>
           \o <<255, 255, 255, 88, 157, 255, 255, 255, 255, 255, 255, 255, 255>>
           \o Fill(15, 0)
           \o <<88, 157, 152, 80, 0, 3, 255>>

\* 15: IAP15F2K61S2 on its internal oscillator at 11.0592 MHz, BSL 7.2;
\* option bytes at packet[5:8] and packet[12]
Status15 ==
    <<80, 142, 216, 0, 88, 129, 255, 191>> \o <<0, 168, 192, 0>>
        \o <<247, 18, 0>> \o <<0, 0, 114, 83, 0, 244, 73>>

\* 15: the same MCU with an older BSL (7.1) on an external 11.0592 MHz
\* clock: bit 0 of packet[7] is clear, packet[13:15] counts the clock
Status15Ext ==
    <<80, 142, 216, 0, 88, 129, 255, 190>> \o <<0, 0, 0, 0>>
        \o <<247, 18, 0>> \o <<0, 0, 113, 83, 0, 244, 73>>

GoodStatus(family) ==
    CASE family = "stc89"  -> Status89
      [] family = "stc12a" -> Status12A
      [] family = "stc12"  -> Status12
      [] family = "stc15a" -> Status15A
      [] OTHER             -> Status15

\* 12: the same MCU with the internal RC oscillator selected: bit 1 of
\* option byte 1 (packet[24]) is clear
Status12Int ==
    <<80>> \o <<10, 128, 10, 128, 10, 128, 10, 128,
                10, 128, 10, 128, 10, 128, 10, 128>>
           \o <<98, 73, 0, 209, 126, 0>>
           \o <<255, 253, 247, 255>>

\* a status packet with each of its eight frequency counters (packet[1:17])
\* set to 256 * hi + lo
WithCounters(packet, hi, lo) ==
    [k \in 1..Len(packet) |->
        IF k \in 2..17 THEN (IF k % 2 = 0 THEN hi ELSE lo) ELSE packet[k]]

\* 89 on a clock counted as 38400: 65536 - BRT is 257
Status89Fast == WithCounters(Status89, 150, 0)

\* 89 in 6T mode: bit 0 of the MSR (packet[19]) is clear
Status89SixT == [Status89 EXCEPT ![20] = 252]

\* 12A on clocks counted as 75 and as 20: BRT is 255 and 256
Status12ASlow == WithCounters(Status12A, 0, 75)
Status12AStopped == WithCounters(Status12A, 0, 20)

\* 12 on a clock counted as 19040: BRT is 1
Status12Fast == WithCounters(Status12, 74, 96)

\* the other status packets a powered-up MCU of the family sends
StatusVariants(family) ==
    CASE family = "stc15"  -> {Status15Ext}
      [] family = "stc12"  -> {Status12Int, Status12Fast}
      [] family = "stc12a" -> {Status12ASlow, Status12AStopped}
      [] family = "stc89"  -> {Status89Fast, Status89SixT}
      [] OTHER             -> {}

\* StatusType off by one
StatusType_Other(family) == IF family \in {"stc89", "stc12a"} THEN 1 ELSE 81

\* type byte get_status_packet expects: Stc89Protocol (and Stc12AProtocol,
\* which inherits it) 0x00, StcBaseProtocol 0x50
StatusType(family) == IF family \in {"stc89", "stc12a"} THEN 0 ELSE 80

\* the exception a step raised, or the protocol attributes it left
Raised(e) == [exc |-> e, protocol |-> protocol]
Returned(proto) == [exc |-> "none", protocol |-> proto]

\* Stc89Protocol.initialize_status
Stc89_initialize_status(packet) ==
    IF Len(packet) < 22 THEN Raised("struct.error")
    ELSE LET cpu_6t == (packet[20] % 2 = 0)
             cpu_t  == IF cpu_6t THEN 6 ELSE 12
         IN  Returned([protocol EXCEPT
                 !.mcu_magic = UnpackH(Slice(packet, 20, 22)),
                 !.cpu_6t = cpu_6t,
                 !.mcu_clock_hz =
                     Frac(CounterSum(packet, 8) * ((BaudHandshake * cpu_t) \div 8),
                          7),
                 !.bsl_version = packet[18],
                 !.bsl_stepping = packet[19]])

\* Stc12AProtocol.initialize_status and Stc12Protocol.initialize_status
\* (the same code)
Stc12_initialize_status(packet) ==
    IF Len(packet) < 22 THEN Raised("struct.error")
    ELSE Returned([protocol EXCEPT
             !.mcu_magic = UnpackH(Slice(packet, 20, 22)),
             !.mcu_clock_hz =
                 Frac(CounterSum(packet, 8) * ((BaudHandshake * 12) \div 8), 7),
             !.bsl_version = packet[18],
             !.bsl_stepping = packet[19]])

\* Stc15AProtocol.initialize_status: four counters, averaged
Stc15A_initialize_status(packet) ==
    IF Len(packet) < 22 THEN Raised("struct.error")
    ELSE Returned([protocol EXCEPT
             !.mcu_magic = UnpackH(Slice(packet, 20, 22)),
             !.mcu_clock_hz =
                 Frac(BaudHandshake * CounterSum(packet, 4) * 12, 4 * 7),
             !.bsl_version = packet[18],
             !.bsl_stepping = packet[19],
             !.trim_data = Slice(packet, 51, 58),
             !.freq_counter = Frac(CounterSum(packet, 4), 4)])

\* Stc15Protocol.initialize_status: the clock is counted when it is
\* external and read from the packet when it is the calibrated oscillator
Stc15_initialize_status(packet) ==
    IF Len(packet) < 22 THEN Raised("struct.error")
    ELSE LET external == (packet[8] % 2 = 0)
         IN  Returned([protocol EXCEPT
                 !.mcu_magic = UnpackH(Slice(packet, 20, 22)),
                 !.external_clock = external,
                 !.mcu_clock_hz =
                     IF external
                     THEN Frac(BaudHandshake * UnpackH(Slice(packet, 13, 15)), 1)
                     ELSE Frac(UnpackH(Slice(packet, 8, 10)) * 65536
                                   + UnpackH(Slice(packet, 10, 12)), 1),
                 !.freq_count_24 = packet[5],
                 !.bsl_version = packet[18],
                 !.bsl_stepping = packet[19]])

initialize_status(family, packet) ==
    CASE family = "stc89"  -> Stc89_initialize_status(packet)
      [] family = "stc15a" -> Stc15A_initialize_status(packet)
      [] family = "stc15"  -> Stc15_initialize_status(packet)
      [] OTHER             -> Stc12_initialize_status(packet)

\* initialize_options of each class: the MSR slice of the status packet
\* the option codec is built over, or the exception the constructor raises
Stc89_initialize_options(proto, packet) ==
    IF Len(packet) < 20 THEN Raised("IndexError")
    ELSE Returned([proto EXCEPT !.options = <<packet[20]>>])

\* the option codecs over a slice of the status packet: their constructors
\* assert the number of option bytes
SliceOptions(proto, packet, lo, hi) ==
    IF Len(Slice(packet, lo, hi)) # hi - lo THEN Raised("AssertionError")
    ELSE Returned([proto EXCEPT !.options = Slice(packet, lo, hi)])

\* Stc15Protocol.initialize_options: Stc15Option over
\* status_packet[5:8] + status_packet[12:13]
Stc15_initialize_options(proto, packet) ==
    IF Len(packet) < 13 THEN Raised("AssertionError")
    ELSE Returned([proto EXCEPT
             !.options = Slice(packet, 5, 8) \o Slice(packet, 12, 13)])

initialize_options(family, proto, packet) ==
    CASE family = "stc89"  -> Stc89_initialize_options(proto, packet)
      [] family = "stc12a" -> SliceOptions(proto, packet, 23, 28)
      [] family = "stc12"  -> SliceOptions(proto, packet, 23, 27)
      [] family = "stc15a" -> SliceOptions(proto, packet, 23, 36)
      [] OTHER             -> Stc15_initialize_options(proto, packet)

\* run: "if self.opts.version: ... return 0"
RunStart ==
    /\ pc = "start"
    /\ IF opts.version
       THEN /\ ret' = 0
            /\ pc' = "returned"
       ELSE /\ pc' = "connect"
            /\ ret' = ret
    /\ UNCHANGED <<frame, unit, opts, exc, uncaught, ser, rx, trace,
                   status_packet, protocol, bindata, locals>>

\* a get_status_packet that takes any packet for the status packet
WrongType_Absorbed(payload, family) == FALSE

\* get_status_packet: "if status_packet[0] != 0x50" (0x00 in Stc89Protocol)
WrongType(payload, family) == payload[1] # StatusType(family)

\* connect: serial.Serial(...) opens the port or raises SerialException
ConnectOpen ==
    /\ pc = "connect"
    /\ \/ /\ ser' = [state |-> "open", baudrate |-> BaudHandshake]
          /\ pc' = "sync"
          /\ exc' = exc
       \/ /\ Raise("SerialException")
          /\ ser' = ser
    /\ UNCHANGED <<frame, unit, opts, ret, uncaught, rx, trace,
                   status_packet, protocol, bindata, locals>>

\* what the MCU sends while the host pulses: a status packet, a deviating
\* payload, or (within the bound) a faulty frame; nothing while bytes of an
\* earlier transmission are still unread
SyncFrames ==
    [family \in Families |->
        {[bytes |-> McuPacket(Dialect(family), p), fault |-> 0] :
            p \in {GoodStatus(family), <<128>>} \cup StatusVariants(family)
                      \cup Deviations(GoodStatus(family))}]

SyncFaults ==
    [family \in Families |->
        {[bytes |-> c, fault |-> 1] :
            c \in Corruptions(McuPacket(Dialect(family),
                                        GoodStatus(family)))}]

SyncTx(family) ==
    IF rx # <<>> THEN {[bytes |-> <<>>, fault |-> 0]}
    ELSE SyncFrames[family]
             \cup (IF locals.faults > 0 THEN SyncFaults[family] ELSE {})

\* one turn of the loop of connect: pulse(), get_status_packet();
\* StcFramingException and SerialTimeoutException are passed over
ConnectSync ==
    /\ pc = "sync"
    /\ \E tx \in SyncTx(opts.protocol) :
       \E res \in {read_packet(Dialect(opts.protocol), rx \o tx.bytes)} :
         /\ trace' = trace \o <<Ev("pulse", "connect", <<127>>),
                                ReadEv("connect", ser.baudrate, res.kind,
                                       res.payload)>>
         /\ rx' = Rest(rx \o tx.bytes, res.used)
         /\ locals' = [locals EXCEPT !.faults = @ - tx.fault]
         /\ IF res.kind # "ok"
            THEN /\ pc' = "sync"
                 /\ UNCHANGED <<exc, status_packet>>
            ELSE IF Len(res.payload) < 1
            THEN /\ Raise("IndexError")
                 /\ UNCHANGED status_packet
            ELSE IF opts.protocol \in {"stc15a", "stc15"}
                    /\ res.payload[1] = 128
            THEN /\ pc' = "reack"
                 /\ UNCHANGED <<exc, status_packet>>
            ELSE IF WrongType(res.payload, opts.protocol)
            THEN /\ Raise("StcProtocolException")
                 /\ UNCHANGED status_packet
            ELSE /\ pc' = "initialize"
                 /\ status_packet' = res.payload
                 /\ exc' = exc
    /\ UNCHANGED <<frame, unit, opts, ret, uncaught, ser, protocol, bindata>>

\* Stc15AProtocol.get_status_packet after a 0x80 packet: the re-ack, a
\* pulse and another read_packet, still inside the loop of connect
ConnectReack ==
    /\ pc = "reack"
    /\ \/ \* KeyboardInterrupt after write_packet, before the pulse
          /\ trace' = trace \o <<Ev("packet", "connect", <<128>>)>>
          /\ Raise("KeyboardInterrupt")
          /\ UNCHANGED <<rx, locals, status_packet>>
       \/ \E tx \in SyncTx(opts.protocol) :
          \E res \in {read_packet(Dialect(opts.protocol), rx \o tx.bytes)} :
            /\ trace' = trace \o <<Ev("packet", "connect", <<128>>),
                                   Ev("pulse", "connect", <<127>>),
                                   ReadEv("connect", ser.baudrate, res.kind,
                                          res.payload)>>
            /\ rx' = Rest(rx \o tx.bytes, res.used)
            /\ locals' = [locals EXCEPT !.faults = @ - tx.fault]
            /\ IF res.kind # "ok"
               THEN /\ pc' = "sync"
                    /\ UNCHANGED <<exc, status_packet>>
               ELSE IF Len(res.payload) < 1
               THEN /\ Raise("IndexError")
                    /\ UNCHANGED status_packet
               ELSE IF WrongType(res.payload, opts.protocol)
               THEN /\ Raise("StcProtocolException")
                    /\ UNCHANGED status_packet
               ELSE /\ pc' = "initialize"
                    /\ status_packet' = res.payload
                    /\ exc' = exc
    /\ UNCHANGED <<frame, unit, opts, ret, uncaught, ser, protocol, bindata>>

\* connect after its loop: initialize_status, initialize_model,
\* initialize_options
Initialize ==
    /\ pc = "initialize"
    /\ \E st \in {initialize_status(opts.protocol, status_packet)} :
         IF st.exc # "none"
         THEN Raise(st.exc) /\ UNCHANGED protocol
         ELSE \E md \in {[st.protocol EXCEPT
                             !.model = initialize_model(st.protocol.mcu_magic)]} :
              \E op \in {initialize_options(opts.protocol, md, status_packet)} :
                 IF op.exc # "none"
                 THEN Raise(op.exc) /\ protocol' = md
                 ELSE /\ protocol' = op.protocol
                      /\ pc' = "main"
                      /\ exc' = exc
    /\ UNCHANGED <<frame, unit, opts, ret, uncaught, ser, rx, trace,
                   status_packet, bindata, locals>>

-----------------------------------------------------------------------------
(* StcGal.run, second try block: program_mcu *)

\* first position of each class's handshake
HandshakeEntry(family) ==
    CASE family \in {"stc89", "stc12a"} -> "handshake.check"
      [] family \in {"stc12", "stc15a"} -> "handshake.init"
      [] OTHER -> "handshake.15"

\* run: "if self.opts.code_image: self.program_mcu()", else disconnect
RunMain ==
    /\ pc = "main"
    /\ pc' = IF opts.code_image.given THEN "load" ELSE "disconnect"
    /\ UNCHANGED <<frame, unit, opts, exc, ret, uncaught, ser, rx, trace,
                   status_packet, protocol, bindata, locals>>

\* padding that adds a whole block to an image that needs none
Pad512_Full(data) == data \o Fill(512 - (Len(data) % 512), 255)

\* bindata padded with 0xff to a multiple of 512
Pad512(data) ==
    IF Len(data) % 512 = 0 THEN data
    ELSE data \o Fill(512 - (Len(data) % 512), 255)

\* program_mcu up to the padding: the image from the code file and the
\* optional eeprom file
BuildImage(code, eeprom, code_size, ee_size) ==
    LET cut   == IF Len(code) > code_size + ee_size
                 THEN Slice(code, 0, code_size + ee_size) ELSE code
        eedat == IF Len(eeprom.data) > ee_size
                 THEN Slice(eeprom.data, 0, ee_size) ELSE eeprom.data
        whole == IF ~eeprom.given THEN cut
                 ELSE (IF Len(cut) < code_size
                       THEN cut \o Fill(code_size - Len(cut), 0)
                       ELSE Slice(cut, 0, code_size)) \o eedat
    IN  Pad512(whole)

(* Image experiment: program_mcu builds bindata from a code file, an *)
(* optional eeprom file and the sizes of the model                    *)

\* model.code and model.eeprom of the MCU models tried
ImageSizes == {<<0, 0>>, <<4, 2>>, <<512, 0>>, <<512, 512>>, <<1024, 512>>}

\* lengths of the code files and of the eeprom files tried
CodeLens == {0, 1, 3, 4, 5, 6, 7, 9, 511, 512, 513, 1024, 1025, 1536, 1537,
             1600}
EepromLens == {0, 1, 2, 3, 512, 513}

\* file contents: code bytes lie in 1..100, eeprom bytes in 129..228
CodeFile(n) == [k \in 1..n |-> 1 + (k % 100)]
EepromFile(n) == [given |-> TRUE, valid |-> TRUE,
                  data |-> [k \in 1..n |-> 129 + (k % 100)]]

ImageIdle ==
    [exp |-> "image", pc |-> "init", code |-> <<>>, eeprom |-> NoFile,
     code_size |-> 0, ee_size |-> 0, bindata |-> <<>>]

\* program_mcu from "warn if it overflows" to "pad to 512 byte boundary"
ImageBuild ==
    /\ unit.exp = "image"
    /\ unit.pc = "init"
    /\ unit' = [unit EXCEPT !.pc = "done",
                   !.bindata = BuildImage(unit.code, unit.eeprom,
                                          unit.code_size, unit.ee_size)]
    /\ UNCHANGED <<frame, sessionVars>>

ImageNext == ImageBuild

\* the files and model sizes handed to program_mcu
ImageInit ==
    /\ frame = FrameIdle
    /\ unit \in {[ImageIdle EXCEPT !.code = CodeFile(n), !.eeprom = e,
                                   !.code_size = s[1], !.ee_size = s[2]] :
                    n \in CodeLens,
                    e \in {NoFile} \cup {EepromFile(m) : m \in EepromLens},
                    s \in ImageSizes}
    /\ SessionIdle

ImageSpec == ImageInit /\ [][ImageNext]_vars

\* program_mcu: load_file_auto raises IOError for an invalid Intel HEX file
ProgramLoad ==
    /\ pc = "load"
    /\ IF ~opts.code_image.valid \/ ~opts.eeprom_image.valid
       THEN Raise("IOError") /\ UNCHANGED bindata
       ELSE /\ bindata' = BuildImage(opts.code_image.data, opts.eeprom_image,
                                     protocol.model.code, protocol.model.eeprom)
            /\ pc' = "emit_options"
            /\ exc' = exc
    /\ UNCHANGED <<frame, unit, opts, ret, uncaught, ser, rx, trace,
                   status_packet, protocol, locals>>

\* program_mcu: "if self.opts.option: self.emit_options(self.opts.option)"
EmitOptions ==
    /\ pc = "emit_options"
    /\ LET r == emit_options(opts.protocol, protocol.options, opts.option, 1)
       IN  /\ protocol' = [protocol EXCEPT !.options = r.msr]
           /\ IF r.raised
              THEN Raise("NameError")
              ELSE /\ pc' = HandshakeEntry(opts.protocol)
                   /\ exc' = exc
    /\ UNCHANGED <<frame, unit, opts, ret, uncaught, ser, rx, trace,
                   status_packet, bindata, locals>>

\* AfterBlocks of a class hierarchy in which no program_flash ends with a
\* finish packet
AfterBlocks_NoFinish == "options"

\* where control goes after the last block of program_flash:
\* Stc12Protocol.program_flash (also used by Stc15AProtocol) ends with a
\* finish packet
AfterBlocks ==
    IF opts.protocol \in {"stc12", "stc15a"} THEN "program.finish"
    ELSE "options"

\* where control goes after erase_flash: the loop of program_flash runs
\* once per block of bindata
ProgramEntry == IF Len(bindata) = 0 THEN AfterBlocks ELSE "program"

\* program_flash that ends after its first block
NextBlock_Last(i) == AfterBlocks

\* where control goes after block i of program_flash
NextBlock(i) ==
    IF i + PROGRAM_BLOCKSIZE(opts.protocol) < Len(bindata) THEN "program"
    ELSE AfterBlocks

\* disconnect that writes the reset packet twice
Disconnected_Twice(tr) ==
    tr \o <<Ev("packet", "disconnect", <<130>>),
            Ev("packet", "disconnect", <<130>>),
            Ev("close", "disconnect", <<>>)>>

\* exit codes the other way round
ExitCode_Swapped(e) == IF e = "KeyboardInterrupt" THEN 1 ELSE 2

\* the exit code the except clauses of run return for exception e
ExitCode(e) == IF e = "KeyboardInterrupt" THEN 2 ELSE 1

\* disconnect that leaves the port open
Disconnected_NoClose(tr) == tr \o <<Ev("packet", "disconnect", <<130>>)>>

\* StcBaseProtocol.disconnect: the reset packet, then the port is closed
Disconnected(tr) == tr \o <<Ev("packet", "disconnect", <<130>>),
                            Ev("close", "disconnect", <<>>)>>

\* program_mcu: the final disconnect, after which run returns 0
Disconnect ==
    /\ pc = "disconnect"
    /\ trace' = Disconnected(trace)
    /\ ser' = [ser EXCEPT !.state = "closed"]
    /\ ret' = 0
    /\ pc' = "returned"
    /\ UNCHANGED <<frame, unit, opts, exc, uncaught, rx, status_packet,
                   protocol, bindata, locals>>

\* the except clauses of the first try block of run
RunExcept1 ==
    /\ pc = "except1"
    /\ pc' = "returned"
    /\ ret' = ExitCode(exc)
    /\ IF exc \in ProtocolErrors
       THEN /\ trace' = Disconnected(trace)
            /\ ser' = [ser EXCEPT !.state = "closed"]
       ELSE UNCHANGED <<trace, ser>>
    /\ UNCHANGED <<frame, unit, opts, exc, uncaught, rx, status_packet,
                   protocol, bindata, locals>>

\* the except clauses of the second try block of run; an exception none
\* of them names leaves run
RunExcept2 ==
    /\ pc = "except2"
    /\ IF exc \in {"NameError", "KeyboardInterrupt"} \cup ProtocolErrors
                  \cup (IOErrors \ SerialErrors)
       THEN /\ trace' = Disconnected(trace)
            /\ ser' = [ser EXCEPT !.state = "closed"]
            /\ ret' = ExitCode(exc)
            /\ pc' = "returned"
            /\ UNCHANGED uncaught
       ELSE IF exc \in SerialErrors
       THEN /\ ret' = ExitCode(exc)
            /\ pc' = "returned"
            /\ UNCHANGED <<trace, ser, uncaught>>
       ELSE /\ uncaught' = exc
            /\ pc' = "raised"
            /\ UNCHANGED <<trace, ser, ret>>
    /\ UNCHANGED <<frame, unit, opts, exc, rx, status_packet, protocol,
                   bindata, locals>>

\* the user presses Ctrl-C while run is between two serial operations
KeyboardInterrupt ==
    /\ pc \notin EndPcs \cup {"start", "except1", "except2"}
    /\ RaiseOnly("KeyboardInterrupt")

-----------------------------------------------------------------------------
(* Stc89Protocol *)

\* a sample rate taken from bit 0 of the MSR as the options left it
Stc89_sample_rate_FromMsr == IF protocol.options[1] % 2 = 0 THEN 16 ELSE 32

\* "sample_rate = 16 if self.cpu_6t else 32"
Stc89_sample_rate == IF protocol.cpu_6t THEN 16 ELSE 32

\* Stc89Protocol.calculate_baud
Stc89_calculate_baud ==
    LET clk         == protocol.mcu_clock_hz
        sample_rate == Stc89_sample_rate
        brt         == 65536 - Round(clk.n, clk.d * BaudTransfer * sample_rate)
    IN  [exc      |-> IF brt = 65536 THEN "ZeroDivisionError" ELSE "none",
         brt      |-> brt,
         brt_csum |-> (2 * (256 - brt)) % 256,
         iap_wait |-> IF clk.n < 5000000 * clk.d THEN 131
                      ELSE IF clk.n < 10000000 * clk.d THEN 130
                      ELSE IF clk.n < 20000000 * clk.d THEN 129
                      ELSE 128,
         delay    |-> 160]

\* ping-pong packet of the handshakes: 0x80 0x00 0x00 0x36 0x01 and magic
PingPacket(type) == <<type, 0, 0, 54, 1>> \o PackH(protocol.mcu_magic)

\* Stc89Protocol.handshake: "check new baudrate"
Stc89_handshake_check ==
    /\ pc = "handshake.check"
    /\ opts.protocol = "stc89"
    /\ LET b == Stc89_calculate_baud
       IN  IF b.exc # "none" THEN RaiseOnly(b.exc)
           ELSE IF b.brt \notin 0..65535 THEN RaiseOnly("struct.error")
           ELSE Exchange("handshake",
                    <<143>> \o PackH(b.brt)
                        \o <<255 - (b.brt \div 256), b.brt_csum, b.delay,
                             b.iap_wait>>,
                    "baud", <<143>>, {<<143>>},
                    LAMBDA r : WithBaud(
                        CheckType(r, 143,
                                  Done("handshake.set", protocol, locals)),
                        BaudHandshake))

\* Stc89Protocol.handshake: "switch to baudrate"
Stc89_handshake_set ==
    /\ pc = "handshake.set"
    /\ opts.protocol = "stc89"
    /\ LET b == Stc89_calculate_baud
       IN  Exchange("handshake",
                    <<142>> \o PackH(b.brt)
                        \o <<255 - (b.brt \div 256), b.brt_csum, b.delay>>,
                    "baud", <<142>>, {<<142>>},
                    LAMBDA r : CheckType(r, 142,
                        Done("handshake.test", protocol,
                             [locals EXCEPT !.n = 0])))

\* a ping-pong test of one turn
NextTurn_Once(n) == "erase"

\* "for i in range(4)" of the ping-pong test: where turn n leads
NextTurn(n) == IF n + 1 < 4 THEN "handshake.test" ELSE "erase"

\* Stc89Protocol.handshake / Stc12AProtocol.handshake: one of the four
\* turns of the ping-pong test
Stc89_handshake_test ==
    /\ pc = "handshake.test"
    /\ opts.protocol \in {"stc89", "stc12a"}
    /\ Exchange("handshake", PingPacket(128), "none", <<128>>, {<<128>>},
                LAMBDA r : CheckType(r, 128,
                    Done(NextTurn(locals.n), protocol, [locals EXCEPT !.n = @ + 1])))

\* block counts in units of 256 bytes
Blocks_Pages(size) == ((size + 255) \div 256) * 2

\* blks and size of the erase_flash functions
Blocks(size) == ((size + 511) \div 512) * 2

\* Stc89Protocol.erase_flash
Stc89_erase_flash ==
    /\ pc = "erase"
    /\ opts.protocol = "stc89"
    /\ IF Blocks(Len(bindata)) > 255 THEN RaiseOnly("ValueError")
       ELSE Exchange("erase",
                <<132, Blocks(Len(bindata)), 51, 51, 51, 51, 51, 51>>,
                "none", <<128>>, {<<128>>},
                LAMBDA r : CheckType(r, 128,
                    Done(ProgramEntry, protocol, [locals EXCEPT !.i = 0])))

\* the write packet of Stc89Protocol/Stc12Protocol.program_flash for the
\* block at address i
ProgramPacket(i) ==
    LET B    == PROGRAM_BLOCKSIZE(opts.protocol)
        body == <<0, 0, 0>> \o PackH(i) \o PackH(B) \o Slice(bindata, i, i + B)
    IN  body \o Fill(Max(0, B + 7 - Len(body)), 0)

\* "csum = sum(packet[7:]) & 0xff"
ProgramCsum(packet) == SumRange(packet, 8, Len(packet)) % 256

\* checks of program_flash that look at the type byte only
CheckBlock_TypeOnly(r, type, csum, rest) == CheckType(r, type, rest)

\* the checks of program_flash on the response to a block: type, then the
\* echoed checksum
CheckBlock(r, type, csum, rest) ==
    CheckType(r, type,
        IF Len(r) < 2 THEN Fail("IndexError")
        ELSE IF r[2] # csum THEN Fail("StcProtocolException")
        ELSE rest)

\* Stc89Protocol.program_flash (also used by Stc12AProtocol): one block
Stc89_program_flash ==
    /\ pc = "program"
    /\ opts.protocol \in {"stc89", "stc12a"}
    /\ IF locals.i > 65535 THEN RaiseOnly("struct.error")
       ELSE LET packet == ProgramPacket(locals.i)
                csum   == ProgramCsum(packet)
            IN  Exchange("program", packet, "none",
                    <<128, csum>>, {<<128, csum>>, <<128, (csum + 1) % 256>>},
                    LAMBDA r : CheckBlock(r, 128, csum,
                        Done(NextBlock(locals.i), protocol,
                             [locals EXCEPT
                                 !.i = @ + PROGRAM_BLOCKSIZE(opts.protocol)])))

\* Stc89Protocol.program_options
Stc89_program_options ==
    /\ pc = "options"
    /\ opts.protocol = "stc89"
    /\ Exchange("options", <<141, protocol.options[1], 255, 255, 255>>,
                "none", <<141>>, {<<141>>},
                LAMBDA r : CheckType(r, 141,
                                     Done("disconnect", protocol, locals)))

-----------------------------------------------------------------------------
(* Stc12AProtocol and Stc12Protocol *)

\* struct.pack(">I", n), defined for 0 <= n < 2^32
PackI(n) == PackH(n \div 65536) \o PackH(n % 65536)

\* calculate_baud that rounds down
calculate_baud_Floor(clk, baud) ==
    LET n   == Trunc(clk.n, clk.d * baud * 16)
        brt == 256 - n
    IN  [exc      |-> IF brt <= 1 \/ brt > 255 THEN "StcProtocolException"
                      ELSE "none",
         brt      |-> brt,
         brt_csum |-> (2 * (256 - brt)) % 256,
         warn     |-> FALSE,
         iap_wait |-> 128,
         delay    |-> 128]

\* calculate_baud that also refuses the register value 255
Stc12_calculate_baud_Strict ==
    LET clk == protocol.mcu_clock_hz
        brt == 256 - Round(clk.n, clk.d * BaudTransfer * 16)
    IN  [exc      |-> IF brt <= 1 \/ brt >= 255 THEN "StcProtocolException"
                      ELSE "none",
         brt      |-> brt,
         brt_csum |-> (2 * (256 - brt)) % 256,
         iap_wait |-> 128,
         delay    |-> 128]

\* Stc12AProtocol.calculate_baud and Stc12Protocol.calculate_baud (the same
\* code)
calculate_baud(clk, baud) ==
    LET n   == Round(clk.n, clk.d * baud * 16)
        brt == 256 - n
    IN  [exc      |-> IF brt <= 1 \/ brt > 255 THEN "StcProtocolException"
                      ELSE "none",
         brt      |-> brt,
         brt_csum |-> (2 * (256 - brt)) % 256,
         warn     |-> /\ brt > 1 /\ brt <= 255
                      /\ Abs(baud * clk.d * 16 * n - clk.n) * 20
                             > baud * clk.d * 16 * n,
         iap_wait |-> IF clk.n < 1000000 * clk.d THEN 135
                      ELSE IF clk.n < 2000000 * clk.d THEN 134
                      ELSE IF clk.n < 3000000 * clk.d THEN 133
                      ELSE IF clk.n < 6000000 * clk.d THEN 132
                      ELSE IF clk.n < 12000000 * clk.d THEN 131
                      ELSE IF clk.n < 20000000 * clk.d THEN 130
                      ELSE IF clk.n < 24000000 * clk.d THEN 129
                      ELSE 128,
         delay    |-> 128]

\* calculate_baud of the session: self.mcu_clock_hz and self.baud_transfer
Stc12_calculate_baud == calculate_baud(protocol.mcu_clock_hz, BaudTransfer)

(* Baud experiment: calculate_baud of Stc12AProtocol and Stc12Protocol on *)
(* a clock and a transfer baudrate                                        *)

\* transfer baudrates tried
BaudRates == {2400, 9600, 19200, 57600, 115200}

\* clocks tried, as tenths of clk / (baud * 16): around the ties 0.5, 1.5
\* and 254.5, the ends 1 and 255 of the range, and ordinary ratios
RatioTenths ==
    {3, 5, 7, 10, 12, 14, 15, 25, 104, 106, 360, 1000,
     2544, 2545, 2546, 2549, 2550, 2551, 3000}

\* crystals in common use, in Hz
Crystals == {11059200, 12000000, 22118400, 24000000}

BaudClocks(baud) ==
    {Frac(r * ((baud * 16) \div 10), 1) : r \in RatioTenths}
        \cup {Frac(c, 1) : c \in Crystals}

BaudIdle ==
    [exp |-> "baud", pc |-> "init", clk |-> Frac(0, 1), baud |-> 0,
     result |-> [returned |-> FALSE, brt |-> 0, warn |-> FALSE]]

\* calculate_baud() with mcu_clock_hz = clk and baud_transfer = baud: what
\* it returns, or that it raised
BaudCalculate ==
    /\ unit.exp = "baud"
    /\ unit.pc = "init"
    /\ \E r \in {calculate_baud(unit.clk, unit.baud)} :
           unit' = [unit EXCEPT !.pc = "done",
                       !.result = [returned |-> r.exc = "none",
                                   brt      |-> IF r.exc = "none" THEN r.brt
                                                ELSE 0,
                                   warn     |-> r.warn]]
    /\ UNCHANGED <<frame, sessionVars>>

BaudNext == BaudCalculate

\* the clocks and baudrates handed to calculate_baud
BaudInit ==
    /\ frame = FrameIdle
    /\ unit \in UNION {{[BaudIdle EXCEPT !.clk = c, !.baud = b] :
                            c \in BaudClocks(b)} : b \in BaudRates}
    /\ SessionIdle

BaudSpec == BaudInit /\ [][BaudNext]_vars

\* the baudrate packets of the 12 series handshakes; the test packet (0x8f)
\* also carries the IAP wait states
BaudPacket(cmd, b) ==
    <<cmd, 192, b.brt, 63, b.brt_csum, b.delay>>
        \o (IF cmd = 143 THEN <<b.iap_wait>> ELSE <<>>)

\* Stc12AProtocol.handshake: the test of the new settings
Stc12A_handshake_check ==
    /\ pc = "handshake.check"
    /\ opts.protocol = "stc12a"
    /\ LET b == Stc12_calculate_baud
       IN  IF b.exc # "none" THEN RaiseOnly(b.exc)
           ELSE Exchange("handshake", BaudPacket(143, b), "baud",
                    <<143>>, {<<143>>},
                    LAMBDA r : WithBaud(
                        CheckType(r, 143,
                                  Done("handshake.set", protocol, locals)),
                        BaudHandshake))

\* Stc12AProtocol.handshake: the switch to the new settings
Stc12A_handshake_set ==
    /\ pc = "handshake.set"
    /\ opts.protocol = "stc12a"
    /\ Exchange("handshake", BaudPacket(142, Stc12_calculate_baud), "baud",
                <<142>>, {<<142>>},
                LAMBDA r : CheckType(r, 142,
                    Done("handshake.test", protocol, [locals EXCEPT !.n = 0])))

\* the countdown of the 12 classes in every class
ERASE_COUNTDOWN_Same(family) == 13

ERASE_COUNTDOWN(family) == IF family \in {"stc12a", "stc12"} THEN 13 ELSE 94

\* the erase packet of the 12 series: blks, size and the countdown from
\* 0x80 down to ERASE_COUNTDOWN + 1
ErasePacket(blks, size, countdown) ==
    <<132, 255, 0, blks, 0, 0, size>> \o Fill(12, 0)
        \o [k \in 1..(128 - countdown) |-> 129 - k]

\* Stc12AProtocol.erase_flash
Stc12A_erase_flash ==
    /\ pc = "erase"
    /\ opts.protocol = "stc12a"
    /\ LET blks == Blocks(Len(bindata))
           size == Blocks(protocol.model.code)
       IN  IF blks > 255 \/ size > 255 THEN RaiseOnly("ValueError")
           ELSE Exchange("erase",
                    ErasePacket(blks, size, ERASE_COUNTDOWN(opts.protocol)),
                    "none", <<128>>, {<<128>>},
                    LAMBDA r : CheckType(r, 128,
                        Done(ProgramEntry, protocol, [locals EXCEPT !.i = 0])))

\* Stc12AProtocol.program_options
Stc12A_program_options ==
    /\ pc = "options"
    /\ opts.protocol = "stc12a"
    /\ Exchange("options",
                <<141>> \o protocol.options
                    \o PackI(Trunc(protocol.mcu_clock_hz.n,
                                   protocol.mcu_clock_hz.d)),
                "none", <<128>>, {<<128>>},
                LAMBDA r : CheckType(r, 128,
                                     Done("disconnect", protocol, locals)))

\* Stc12Protocol.handshake: calculate_baud and the start of the handshake
Stc12_handshake_init ==
    /\ pc = "handshake.init"
    /\ opts.protocol = "stc12"
    /\ IF Stc12_calculate_baud.exc # "none"
       THEN RaiseOnly(Stc12_calculate_baud.exc)
       ELSE Exchange("handshake", PingPacket(80), "none", <<143>>, {<<143>>},
                LAMBDA r : CheckType(r, 143,
                    Done("handshake.check", protocol, locals)))

\* Stc12Protocol.handshake: the test of the new settings
Stc12_handshake_check ==
    /\ pc = "handshake.check"
    /\ opts.protocol = "stc12"
    /\ Exchange("handshake", BaudPacket(143, Stc12_calculate_baud), "baud",
                <<143>>, {<<143>>},
                LAMBDA r : WithBaud(
                    CheckType(r, 143, Done("handshake.set", protocol, locals)),
                    BaudHandshake))

\* Stc12Protocol.handshake: the switch to the new settings
Stc12_handshake_set ==
    /\ pc = "handshake.set"
    /\ opts.protocol = "stc12"
    /\ Exchange("handshake", BaudPacket(142, Stc12_calculate_baud), "baud",
                <<132>>, {<<132>>},
                LAMBDA r : CheckType(r, 132, Done("erase", protocol, locals)))

\* a UID as the MCU reports it
TestUid == <<241, 2, 3, 4, 5, 6, 7>>

\* "if len(response) >= 8: self.uid = response[1:8]"
WithEraseUid(proto, r) ==
    IF Len(r) >= 8 THEN [proto EXCEPT !.uid = [set |-> TRUE, val |-> Slice(r, 1, 8)]]
    ELSE proto

\* Stc12Protocol.erase_flash (also used by Stc15AProtocol)
Stc12_erase_flash ==
    /\ pc = "erase"
    /\ opts.protocol \in {"stc12", "stc15a"}
    /\ LET blks == Blocks(Len(bindata))
           size == Blocks(protocol.model.code)
       IN  IF blks > 255 \/ size > 255 THEN RaiseOnly("ValueError")
           ELSE Exchange("erase",
                    ErasePacket(blks, size, ERASE_COUNTDOWN(opts.protocol)),
                    "none", <<0>>, {<<0>>, <<0>> \o TestUid},
                    LAMBDA r : CheckType(r, 0,
                        Done(ProgramEntry, WithEraseUid(protocol, r),
                             [locals EXCEPT !.i = 0])))

\* Stc12Protocol.program_flash (also used by Stc15AProtocol): one block
Stc12_program_flash ==
    /\ pc = "program"
    /\ opts.protocol \in {"stc12", "stc15a"}
    /\ IF locals.i > 65535 THEN RaiseOnly("struct.error")
       ELSE LET packet == ProgramPacket(locals.i)
                csum   == ProgramCsum(packet)
            IN  Exchange("program", packet, "none",
                    <<0, csum>>, {<<0, csum>>, <<0, (csum + 1) % 256>>},
                    LAMBDA r : CheckBlock(r, 0, csum,
                        Done(NextBlock(locals.i), protocol,
                             [locals EXCEPT
                                 !.i = @ + PROGRAM_BLOCKSIZE(opts.protocol)])))

\* Stc12Protocol.program_flash: the finish packet after the last block
Stc12_program_finish ==
    /\ pc = "program.finish"
    /\ opts.protocol \in {"stc12", "stc15a"}
    /\ Exchange("program", PingPacket(105), "none", <<141>>, {<<141>>},
                LAMBDA r : CheckType(r, 141,
                                     Done("options", protocol, locals)))

\* "if not self.uid: self.uid = response[18:25]"
WithOptionUid(proto, r) ==
    IF proto.uid.set /\ proto.uid.val # <<>> THEN proto
    ELSE [proto EXCEPT !.uid = [set |-> TRUE, val |-> Slice(r, 18, 25)]]

\* the answer to the option packet of the 12 and 15 series, with the UID at
\* response[18:25]
OptionAck(type) == <<type>> \o Fill(17, 0) \o TestUid

\* Stc12Protocol.program_options
Stc12_program_options ==
    /\ pc = "options"
    /\ opts.protocol = "stc12"
    /\ Exchange("options",
                <<141>> \o protocol.options \o Fill(12, 255)
                    \o PackI(Trunc(protocol.mcu_clock_hz.n,
                                   protocol.mcu_clock_hz.d)),
                "none", OptionAck(80), {OptionAck(80), <<80>>},
                LAMBDA r : CheckType(r, 80,
                    Done("disconnect", WithOptionUid(protocol, r), locals)))

-----------------------------------------------------------------------------
(* Stc15AProtocol.  Python computes the trim arithmetic in floating point; *)
(* the model computes it in exact fractions.                               *)

\* "user_speed = self.trim_frequency; if user_speed <= 0: user_speed =
\* self.mcu_clock_hz"
UserSpeed ==
    IF protocol.trim_frequency <= 0 THEN protocol.mcu_clock_hz
    ELSE Frac(protocol.trim_frequency, 1)

\* Stc15AProtocol.handshake: int(self.freq_counter * (speed /
\* self.mcu_clock_hz)), defined for mcu_clock_hz # 0
TrimCount(speed) ==
    LET ratio == Frac(speed.n * protocol.mcu_clock_hz.d,
                      speed.d * protocol.mcu_clock_hz.n)
    IN  Trunc(protocol.freq_counter.n * ratio.n,
              protocol.freq_counter.d * ratio.d)

\* Stc15AProtocol.get_trim_sequence
get_trim_sequence(f) ==
    IF 2 * f.n < 15000000 * f.d
    THEN <<24, 0, 2, 0, 24, 128, 2, 0, 24, 128, 2, 0, 24, 255, 2, 0>>
    ELSE IF f.n < 10000000 * f.d
    THEN <<24, 128, 2, 0, 24, 255, 2, 0, 88, 0, 2, 0, 88, 255, 2, 0>>
    ELSE IF f.n < 15000000 * f.d
    THEN <<88, 0, 2, 0, 88, 128, 2, 0, 88, 128, 2, 0, 88, 255, 2, 0>>
    ELSE IF f.n < 21000000 * f.d
    THEN <<88, 128, 2, 0, 88, 255, 2, 0, 152, 0, 2, 0, 152, 128, 2, 0>>
    ELSE IF f.n < 31000000 * f.d
    THEN <<152, 0, 2, 0, 152, 128, 2, 0, 152, 128, 2, 0, 152, 255, 2, 0>>
    ELSE <<216, 0, 2, 0, 216, 128, 2, 0, 216, 128, 2, 0, 216, 180, 2, 0>>

\* struct.unpack(">HH", r[k:k+4]): a trim value and the count measured
TrimPair(r, k) ==
    [trim  |-> UnpackH(Slice(r, k, k + 2)),
     count |-> UnpackH(Slice(r, k + 2, k + 4))]

\* "m = (trim_b - trim_a) / (count_b - count_a); n = trim_a - m * count_a;
\* round(m * x + n)", defined for count_a # count_b
Interpolate(a, b, x) ==
    Round(a.trim * (b.count - a.count) + (b.trim - a.trim) * (x - a.count),
          b.count - a.count)

\* Stc15AProtocol.handshake: "Initiate handshake"
Stc15A_handshake_init ==
    /\ pc = "handshake.init"
    /\ opts.protocol = "stc15a"
    /\ IF protocol.mcu_clock_hz.n = 0 THEN RaiseOnly("ZeroDivisionError")
       ELSE Exchange("handshake", PingPacket(80), "none", <<143>>, {<<143>>},
                LAMBDA r : CheckType(r, 143,
                    Done("handshake.trim1", protocol, locals)))

\* answers of an MCU to the first trim round: four counts around the user
\* frequency and two around the programming frequency; in the second
\* answer the oscillator did not react and all counts are the same
Trim1Ack ==
    <<101>> \o Fill(11, 0)
        \o PackH(22528) \o PackH(2000) \o PackH(22656) \o PackH(2500)
        \o PackH(22656) \o PackH(2500) \o PackH(22783) \o PackH(3000)
        \o PackH(38912) \o PackH(5000) \o PackH(39040) \o PackH(5500)
Trim1Flat ==
    <<101>> \o Fill(11, 0)
        \o PackH(22528) \o PackH(2500) \o PackH(22656) \o PackH(2500)
        \o PackH(22656) \o PackH(2500) \o PackH(22783) \o PackH(2500)
        \o PackH(38912) \o PackH(2500) \o PackH(39040) \o PackH(2500)

\* Stc15AProtocol.handshake after the first trim round: the programming
\* trim and the start of the range to try next
TrimRange(r) ==
    IF Len(r) < 36 THEN Fail("struct.error")
    ELSE IF TrimPair(r, 28).count = TrimPair(r, 32).count
    THEN Fail("ZeroDivisionError")
    ELSE LET uc  == TrimCount(UserSpeed)
             hi  == TrimPair(r, 20).count <= uc /\ TrimPair(r, 24).count >= uc
             a   == IF hi THEN TrimPair(r, 20) ELSE TrimPair(r, 12)
             b   == IF hi THEN TrimPair(r, 24) ELSE TrimPair(r, 16)
         IN  IF a.count = b.count THEN Fail("ZeroDivisionError")
             ELSE LET start == Min(Max(Interpolate(a, b, uc) - 5, a.trim),
                                   b.trim)
                  IN  IF start < 0 \/ start + 10 > 65535
                      THEN Fail("struct.error")
                      ELSE Done("handshake.trim2", protocol,
                               [locals EXCEPT
                                   !.trim_start = start,
                                   !.program_trim =
                                       Interpolate(TrimPair(r, 28),
                                           TrimPair(r, 32),
                                           TrimCount(Frac(22118400, 1)))])

\* Stc15AProtocol.handshake: "trim challenge-response, first round"
Stc15A_handshake_trim1 ==
    /\ pc = "handshake.trim1"
    /\ Exchange("handshake",
                <<101>> \o protocol.trim_data \o <<255, 255, 6, 6>>
                    \o get_trim_sequence(UserSpeed)
                    \o <<152, 0, 2, 0, 152, 128, 2, 0>>,
                "pulse", Trim1Ack, {Trim1Ack, Trim1Flat},
                LAMBDA r : CheckType(r, 101, TrimRange(r)))

\* the eleven trim challenges of the second round
RECURSIVE TrimTrials(_, _)
TrimTrials(start, n) ==
    IF n = 0 THEN <<>>
    ELSE TrimTrials(start, n - 1) \o PackH(start + n - 1) \o <<2, 0>>

\* answer of an MCU to the second trim round: the counts of the eleven
\* trials
RECURSIVE Trim2Counts(_, _)
Trim2Counts(start, n) ==
    IF n = 0 THEN <<>>
    ELSE Trim2Counts(start, n - 1) \o PackH(start + n - 1)
             \o PackH(2680 + 2 * (n - 1))
Trim2Ack(start) == <<101>> \o Fill(11, 0) \o Trim2Counts(start, 11)

\* answers of an MCU whose counter is saturated in every trial, and of an
\* MCU that reports other trim values than it was sent
RECURSIVE Trim2Pairs(_, _, _, _)
Trim2Pairs(trim, count, step, n) ==
    IF n = 0 THEN <<>>
    ELSE Trim2Pairs(trim, count, step, n - 1) \o PackH(trim + n - 1)
             \o PackH(count + step * (n - 1))
Trim2Saturated(start) ==
    <<101>> \o Fill(11, 0) \o Trim2Pairs(start, 65535, 0, 11)
Trim2Foreign(start) ==
    <<101>> \o Fill(11, 0) \o Trim2Pairs((start + 256) % 65536, 2680, 2, 11)

\* "determine best trim value" that takes the first trial
BestTrim_First(r, uc) == TrimPair(r, 12).trim

\* "determine best trim value": the first of the eleven trials whose count
\* is nearest to the user count, 0 when none is nearer than 65535
BestTrim(r, uc) ==
    LET Dist(c) == IF c < uc THEN uc - c ELSE c - uc
        near == {i \in 0..10 :
                    Dist(TrimPair(r, 12 + 4 * i).count) < Dist(65535)}
    IN  IF near = {} THEN 0
        ELSE TrimPair(r, 12 + 4 * (CHOOSE i \in near : \A j \in near :
                 \/ Dist(TrimPair(r, 12 + 4 * i).count)
                        < Dist(TrimPair(r, 12 + 4 * j).count)
                 \/ /\ Dist(TrimPair(r, 12 + 4 * i).count)
                           = Dist(TrimPair(r, 12 + 4 * j).count)
                    /\ i <= j)).trim

\* set_trim that stores the trim one byte further on
set_trim_Late(msr, val) ==
    Slice(msr, 0, 4) \o PackH(val) \o Slice(msr, 6, Len(msr))

\* Stc15AOption.set_trim: "self.msr[3:5] = struct.pack(">H", val)"
set_trim(msr, val) ==
    Slice(msr, 0, 3) \o PackH(val) \o Slice(msr, 5, Len(msr))

\* Stc15AProtocol.handshake after the second trim round: the best trim goes
\* to the options, then the baudrate packet is built
TrimFinal(r) ==
    IF Len(r) < 56 THEN Fail("struct.error")
    ELSE LET proto == [protocol EXCEPT !.options =
                          set_trim(@, BestTrim(r, TrimCount(UserSpeed)))]
         IN  IF locals.program_trim \notin 0..65535
             THEN [Fail("struct.error") EXCEPT !.protocol = proto]
             ELSE Done("handshake.set", proto, locals)

\* Stc15AProtocol.handshake: "trim challenge-response, second round"
Stc15A_handshake_trim2 ==
    /\ pc = "handshake.trim2"
    /\ Exchange("handshake",
                <<101>> \o protocol.trim_data \o <<255, 255, 6, 11>>
                    \o TrimTrials(locals.trim_start, 11),
                "pulse", Trim2Ack(locals.trim_start),
                {Trim2Ack(locals.trim_start), Trim2Saturated(locals.trim_start),
                 Trim2Foreign(locals.trim_start)},
                LAMBDA r : CheckType(r, 101, TrimFinal(r)))

\* Stc15AProtocol.handshake: "finally, switch baudrate"
Stc15A_handshake_set ==
    /\ pc = "handshake.set"
    /\ opts.protocol = "stc15a"
    /\ Exchange("handshake",
                <<142>> \o PackH(locals.program_trim)
                    \o <<230400 \div BaudTransfer>>
                    \o <<161, 100, 184, 0, 129, 32, 255, 0>>,
                "baud", <<132>>, {<<132>>},
                LAMBDA r : CheckType(r, 132, Done("erase", protocol, locals)))

\* "print("Target UID: %s" % Utils.hexstr(self.uid))": bytes(None) raises
\* TypeError when no UID came with the erase acknowledge
PrintUid(j) ==
    IF j.exc = "none" /\ ~j.protocol.uid.set THEN Fail("TypeError") ELSE j

\* Stc15AProtocol.program_options
Stc15A_program_options ==
    /\ pc = "options"
    /\ opts.protocol = "stc15a"
    /\ Exchange("options", <<141>> \o protocol.options \o Fill(6, 255),
                "none", <<80>>, {<<80>>},
                LAMBDA r : PrintUid(CheckType(r, 80,
                               Done("disconnect", protocol, locals))))

-----------------------------------------------------------------------------
(* Stc15Protocol *)

\* a bootloader that always wants the additional bytes
Bsl72_Always(extra) == extra

\* the bytes BSL 7.2 and later want in addition
Bsl72(extra) == IF protocol.bsl_version >= 114 THEN extra ELSE <<>>

\* Stc15Protocol.calibrate: round(speed / (self.baud_handshake / 2))
TargetCount(speed) == Round(2 * speed.n, speed.d * BaudHandshake)

\* the challenges of the first calibration round: twelve pairs of a trim
\* adjust value and a trim range
Calib1Packet ==
    <<0, 12>> \o <<0, 192, 128, 192, 255, 192>> \o <<0, 128, 128, 128, 255, 128>>
              \o <<0, 64, 128, 64, 255, 64>> \o <<0, 0, 128, 0, 192, 0>>

\* answer of an MCU to the first round: the counts of the twelve challenges
Calib1Ack ==
    <<0, 12>> \o PackH(30000) \o PackH(33000) \o PackH(36000)
              \o PackH(16000) \o PackH(18000) \o PackH(20000)
              \o PackH(8000) \o PackH(9000) \o PackH(10000)
              \o PackH(4000) \o PackH(4500) \o PackH(4800)

\* an answer in which no two neighbouring counts enclose a target
Calib1Low == <<0, 12>> \o Fill(24, 1)

\* an answer in which every count is the target of the programming
\* frequency, round(22118400 / 1200)
Calib1Flat ==
    <<0, 12>> \o PackH(18432) \o PackH(18432) \o PackH(18432)
              \o PackH(18432) \o PackH(18432) \o PackH(18432)
              \o PackH(18432) \o PackH(18432) \o PackH(18432)
              \o PackH(18432) \o PackH(18432) \o PackH(18432)

\* Stc15Protocol.choose_range, turn i of its loop: "next" when the loop
\* goes on, else the exception raised or the (trim, range) returned
RangeTurn(packet, response, target, i) ==
    LET calib == Slice(response, 2 + 2 * i, 6 + 2 * i)
        chall == Slice(packet, 2 + 2 * i, 6 + 2 * i)
    IN  IF Len(calib) < 4 \/ Len(chall) < 4
        THEN [kind |-> "struct.error", trim |-> NoTrim]
        ELSE LET a == [trim |-> chall[1], count |-> UnpackH(Slice(calib, 0, 2))]
                 b == [trim |-> chall[3], count |-> UnpackH(Slice(calib, 2, 4))]
             IN  IF ~ \/ a.count <= target /\ b.count >= target
                      \/ b.count <= target /\ a.count >= target
                 THEN [kind |-> "next", trim |-> NoTrim]
                 ELSE IF a.count = b.count
                 THEN [kind |-> "ZeroDivisionError", trim |-> NoTrim]
                 ELSE [kind |-> "found",
                       trim |-> <<Interpolate(a, b, target), chall[4]>>]

\* Stc15Protocol.choose_range: kind "none" stands for the None it returns
\* when no turn of the loop returns
choose_range(packet, response, target) ==
    IF Len(response) < 2 THEN [kind |-> "IndexError", trim |-> NoTrim]
    ELSE LET ends == {i \in 0..(response[2] - 2) :
                         RangeTurn(packet, response, target, i).kind # "next"}
         IN  IF ends = {} THEN [kind |-> "none", trim |-> NoTrim]
             ELSE RangeTurn(packet, response, target,
                            CHOOSE i \in ends : \A j \in ends : i <= j)

\* Stc15Protocol.calibrate after the first round
CalibrateRanges(r) ==
    LET user == choose_range(Calib1Packet, r, TargetCount(UserSpeed))
        prog == choose_range(Calib1Packet, r, TargetCount(Frac(22118400, 1)))
    IN  IF user.kind \notin {"found", "none"} THEN Fail(user.kind)
        ELSE IF prog.kind \notin {"found", "none"} THEN Fail(prog.kind)
        ELSE IF user.kind = "none" \/ prog.kind = "none"
        THEN Fail("StcProtocolException")
        ELSE Done("calibrate.2", protocol,
                  [locals EXCEPT !.user_trim = user.trim,
                                 !.prog_trim = prog.trim])

\* Stc15Protocol.calibrate: "calibration, round 1"
Stc15_calibrate_1 ==
    /\ pc = "handshake.15"
    /\ ~protocol.external_clock
    /\ Exchange("handshake", Calib1Packet, "raw", Calib1Ack,
                {Calib1Ack, Calib1Low, Calib1Flat},
                LAMBDA r : CheckType(r, 0, CalibrateRanges(r)))

\* the six trials around trim value t in range rng: "for i in range(t - 3,
\* t + 3): packet += bytes([i & 0xff, rng])"
RECURSIVE Trials(_, _, _)
Trials(t, rng, n) ==
    IF n = 0 THEN <<>>
    ELSE Trials(t, rng, n - 1) \o <<(t - 3 + n - 1) % 256, rng>>

\* the challenges of the second calibration round
Calib2Packet ==
    <<0, 12>> \o Trials(locals.user_trim[1], locals.user_trim[2], 6)
              \o Trials(locals.prog_trim[1], locals.prog_trim[2], 6)

\* answers of an MCU to the second round: twelve counts, or none
Calib2Ack ==
    <<0, 12>> \o PackH(9200) \o PackH(9208) \o PackH(9216)
              \o PackH(9224) \o PackH(9232) \o PackH(9240)
              \o PackH(18416) \o PackH(18424) \o PackH(18432)
              \o PackH(18440) \o PackH(18448) \o PackH(18456)
Calib2None == <<0, 0>>

\* Stc15Protocol.choose_trim: the first challenge whose count is nearest
\* to the target; kind "none" stands for the None it returns
choose_trim(packet, response, target) ==
    LET Dist(i) == LET c == UnpackH(Slice(response, 2 + 2 * i, 4 + 2 * i))
                   IN  IF c < target THEN target - c ELSE c - target
    IN  IF Len(response) < 2
        THEN [kind |-> "IndexError", trim |-> NoTrim, count |-> 0]
        ELSE IF \E i \in 0..(response[2] - 1) :
                    \/ Len(Slice(response, 2 + 2 * i, 4 + 2 * i)) < 2
                    \/ Len(Slice(packet, 2 + 2 * i, 4 + 2 * i)) < 2
        THEN [kind |-> "struct.error", trim |-> NoTrim, count |-> 0]
        ELSE IF response[2] = 0
        THEN [kind |-> "none", trim |-> NoTrim, count |-> 0]
        ELSE LET k == CHOOSE i \in 0..(response[2] - 1) :
                          \A j \in 0..(response[2] - 1) :
                              \/ Dist(i) < Dist(j)
                              \/ Dist(i) = Dist(j) /\ i <= j
             IN  [kind  |-> "found",
                  trim  |-> Slice(packet, 2 + 2 * k, 4 + 2 * k),
                  count |-> UnpackH(Slice(response, 2 + 2 * k, 4 + 2 * k))]

\* Stc15Protocol.calibrate after the second round: "select final values";
\* unpacking the None of choose_trim raises TypeError
CalibrateFinal(r) ==
    LET user == choose_trim(Calib2Packet, r, TargetCount(UserSpeed))
        prog == choose_trim(Calib2Packet, r, TargetCount(Frac(22118400, 1)))
    IN  IF user.kind = "none" THEN Fail("TypeError")
        ELSE IF user.kind # "found" THEN Fail(user.kind)
        ELSE IF prog.kind = "none" THEN Fail("TypeError")
        ELSE IF prog.kind # "found" THEN Fail(prog.kind)
        ELSE Done("calibrate.set",
                  [protocol EXCEPT
                      !.trim_value = user.trim,
                      !.trim_frequency =
                          Round(user.count * BaudHandshake, 2)],
                  [locals EXCEPT !.prog_trim = prog.trim])

\* Stc15Protocol.calibrate: "calibration, round 2"
Stc15_calibrate_2 ==
    /\ pc = "calibrate.2"
    /\ Exchange("handshake", Calib2Packet, "raw", Calib2Ack,
                {Calib2Ack, Calib2None},
                LAMBDA r : CheckType(r, 0, CalibrateFinal(r)))

\* program_speed / bauds, with "bauds = self.baud_transfer if
\* (self.mcu_magic >> 8) == 0xf2 else self.baud_transfer * 4"
Bauds ==
    Frac(22118400, IF protocol.mcu_magic \div 256 = 242 THEN BaudTransfer
                   ELSE BaudTransfer * 4)

\* Stc15Protocol.calibrate: "switch to programming frequency"; the
\* baudrate of the port follows the acknowledge
Stc15_calibrate_set ==
    /\ pc = "calibrate.set"
    /\ Exchange("handshake",
                <<1>> \o locals.prog_trim
                      \o PackH(Trunc(65535 * Bauds.d - Bauds.n, Bauds.d))
                      \o PackH(Trunc(65535 * 2 * Bauds.d - 3 * Bauds.n,
                                     2 * Bauds.d))
                      \o <<131>>,
                "none", <<1>>, {<<1>>},
                LAMBDA r : CheckType(r, 1,
                    WithBaud(Done("handshake.prepare", protocol, locals),
                             BaudTransfer)))

\* Stc15Protocol.switch_baud_ext
Stc15_switch_baud_ext ==
    /\ pc = "handshake.15"
    /\ protocol.external_clock
    /\ LET q   == Frac(protocol.mcu_clock_hz.n,
                       protocol.mcu_clock_hz.d * BaudTransfer * 4)
           brt == Trunc(65535 * q.d - q.n, q.d)
       IN  IF brt \notin 0..65535 THEN RaiseOnly("struct.error")
           ELSE Exchange("handshake",
                    <<1, protocol.freq_count_24, 64>> \o PackH(brt)
                        \o <<0, 0, 131>>,
                    "none", <<1>>, {<<1>>},
                    LAMBDA r : CheckType(r, 1,
                        WithBaud(
                            Done("handshake.prepare",
                                 [protocol EXCEPT
                                     !.trim_value =
                                        <<protocol.freq_count_24, 64>>,
                                     !.trim_frequency = 24000000],
                                 locals),
                            BaudTransfer)))

\* Stc15Protocol.handshake: "test/prepare"
Stc15_handshake ==
    /\ pc = "handshake.prepare"
    /\ Exchange("handshake", <<5>> \o Bsl72(<<0, 0, 90, 165>>), "none",
                <<5>>, {<<5>>},
                LAMBDA r : CheckType(r, 5, Done("erase", protocol, locals)))

\* Stc15Protocol.erase_flash
Stc15_erase_flash ==
    /\ pc = "erase"
    /\ opts.protocol = "stc15"
    /\ Exchange("erase", <<3, 0>> \o Bsl72(<<0, 90, 165>>), "none",
                <<3>> \o TestUid, {<<3>>, <<3>> \o TestUid},
                LAMBDA r : CheckType(r, 3,
                    Done(ProgramEntry, WithEraseUid(protocol, r),
                         [locals EXCEPT !.i = 0])))

\* the write packet of Stc15Protocol.program_flash for the block at
\* address i
Stc15_ProgramPacket(i) ==
    LET B    == PROGRAM_BLOCKSIZE(opts.protocol)
        body == <<IF i = 0 THEN 34 ELSE 2>> \o PackH(i)
                    \o Bsl72(<<90, 165>>) \o Slice(bindata, i, i + B)
    IN  body \o Fill(Max(0, B + 3 - Len(body)), 0)

\* "if response[0] != type or response[1] != 0x54: raise
\* StcProtocolException"
CheckAck(r, type, rest) ==
    CheckType(r, type,
        IF Len(r) < 2 THEN Fail("IndexError")
        ELSE IF r[2] # 84 THEN Fail("StcProtocolException")
        ELSE rest)

\* the 8-bit sum of the data bytes of a write packet of Stc15Protocol, which
\* an MCU that echoes checksums as the older families do would answer
Stc15_DataSum(packet) ==
    SumRange(packet, 4 + Len(Bsl72(<<90, 165>>)), Len(packet)) % 256

\* Stc15Protocol.program_flash: one block
Stc15_program_flash ==
    /\ pc = "program"
    /\ opts.protocol = "stc15"
    /\ IF locals.i > 65535 THEN RaiseOnly("struct.error")
       ELSE Exchange("program", Stc15_ProgramPacket(locals.i), "none",
                <<2, 84>>,
                {<<2, 84>>, <<2, Stc15_DataSum(Stc15_ProgramPacket(locals.i))>>},
                LAMBDA r : CheckAck(r, 2,
                    Done(NextBlock(locals.i), protocol,
                         [locals EXCEPT
                             !.i = @ + PROGRAM_BLOCKSIZE(opts.protocol)])))

\* an option packet that carries the trim range as it was recorded
Stc15_OptionPacket_RawRange ==
    LET tf == protocol.trim_frequency
    IN  <<4, 0, 0>> \o Bsl72(<<90, 165>>) \o Fill(23, 255)
            \o <<(tf \div 16777216) % 256, 255, (tf \div 65536) % 256, 255,
                 (tf \div 256) % 256, 255, tf % 256, 255>>
            \o <<protocol.options[4]>> \o Fill(27, 255)
            \o <<protocol.trim_value[1], protocol.trim_value[2]>>
            \o Slice(protocol.options, 0, 3)

\* the option packet of Stc15Protocol.program_options
Stc15_OptionPacket ==
    LET tf == protocol.trim_frequency
    IN  <<4, 0, 0>> \o Bsl72(<<90, 165>>) \o Fill(23, 255)
            \o <<(tf \div 16777216) % 256, 255, (tf \div 65536) % 256, 255,
                 (tf \div 256) % 256, 255, tf % 256, 255>>
            \o <<protocol.options[4]>> \o Fill(27, 255)
            \o <<protocol.trim_value[1], protocol.trim_value[2] + 63>>
            \o Slice(protocol.options, 0, 3)

\* Stc15Protocol.program_options
Stc15_program_options ==
    /\ pc = "options"
    /\ opts.protocol = "stc15"
    /\ IF protocol.trim_value[2] + 63 > 255 THEN RaiseOnly("ValueError")
       ELSE Exchange("options", Stc15_OptionPacket, "none",
                <<4, 84>>, {<<4, 84>>},
                LAMBDA r : PrintUid(CheckAck(r, 4,
                               Done("disconnect", protocol, locals))))

-----------------------------------------------------------------------------
(* The session: StcGal(opts).run() for the command lines considered *)

\* command lines: the plain programming run and its variations
Configs(family) ==
    LET base == [OptsIdle EXCEPT !.protocol = family, !.code_image = TestImage]
    IN  { base,
          [base EXCEPT !.version = TRUE],
          [base EXCEPT !.code_image = NoFile],
          [base EXCEPT !.code_image = BadHexImage],
          [base EXCEPT !.option = <<Opt("watchdog_por_enabled", "true")>>],
          [base EXCEPT !.option = <<Opt("eeprom_erase_enabled", "1"),
                                    OptNoEq("cpu_6t_enabled")>>],
          [base EXCEPT !.option = <<Opt("bogus", "1")>>],
          [base EXCEPT !.option = <<Opt("clock_gain", "bogus")>>],
          [base EXCEPT !.option = <<Opt("clock_source", "external")>>],
          [base EXCEPT !.code_image = NoFile,
                       !.option = <<Opt("bogus", "1")>>] }

\* command lines run against an MCU that makes faulty transmissions while
\* the host synchronizes: the run without a code image of every class, and
\* the programming run of Stc89Protocol
FaultConfigs ==
    {[OptsIdle EXCEPT !.protocol = f] : f \in Families}
        \cup {[OptsIdle EXCEPT !.protocol = "stc89", !.code_image = TestImage]}

\* command lines of the 89 protocol that override the 6T mode
ModeConfigs ==
    {[OptsIdle EXCEPT !.protocol = "stc89", !.code_image = TestImage,
                      !.option = <<Opt("cpu_6t_enabled", v)>>] :
        v \in {"true", "false"}}

\* a command line and the number of faulty transmissions of the MCU
Scenarios ==
    {<<c, 0>> : c \in UNION {Configs(f) : f \in Families} \cup ModeConfigs}
        \cup {<<c, MaxSyncFaults>> : c \in FaultConfigs}

Init ==
    /\ frame = FrameIdle
    /\ unit = UnitIdle
    /\ \E sc \in Scenarios :
           /\ opts = sc[1]
           /\ locals = [LocalsInit EXCEPT !.faults = sc[2]]
    /\ pc = "start"
    /\ exc = "none"
    /\ ret = NotReturned
    /\ uncaught = "none"
    /\ ser = [state |-> "none", baudrate |-> 0]
    /\ rx = <<>>
    /\ trace = <<>>
    /\ status_packet = <<>>
    /\ protocol = [ProtocolInit EXCEPT !.trim_frequency = Round(opts.trim * 1000, 1)]
    /\ bindata = <<>>

Next ==
    \/ RunStart
    \/ ConnectOpen
    \/ ConnectSync
    \/ ConnectReack
    \/ Initialize
    \/ RunMain
    \/ ProgramLoad
    \/ EmitOptions
    \/ Stc89_handshake_check
    \/ Stc89_handshake_set
    \/ Stc89_handshake_test
    \/ Stc89_erase_flash
    \/ Stc89_program_flash
    \/ Stc89_program_options
    \/ Stc12A_handshake_check
    \/ Stc12A_handshake_set
    \/ Stc12A_erase_flash
    \/ Stc12A_program_options
    \/ Stc12_handshake_init
    \/ Stc12_handshake_check
    \/ Stc12_handshake_set
    \/ Stc12_erase_flash
    \/ Stc12_program_flash
    \/ Stc12_program_finish
    \/ Stc12_program_options
    \/ Stc15A_handshake_init
    \/ Stc15A_handshake_trim1
    \/ Stc15A_handshake_trim2
    \/ Stc15A_handshake_set
    \/ Stc15A_program_options
    \/ Stc15_calibrate_1
    \/ Stc15_calibrate_2
    \/ Stc15_calibrate_set
    \/ Stc15_switch_baud_ext
    \/ Stc15_handshake
    \/ Stc15_erase_flash
    \/ Stc15_program_flash
    \/ Stc15_program_options
    \/ Disconnect
    \/ RunExcept1
    \/ RunExcept2
    \/ KeyboardInterrupt

Spec == Init /\ [][Next]_vars

\* run is a sequential program: whenever it can take a step it does
FairSpec == Spec /\ WF_vars(Next)

-----------------------------------------------------------------------------
(* Vocabulary of the properties: what the trace of serial operations shows *)

Packets == {i \in DOMAIN trace : trace[i].op = "packet"}
Reads == {i \in DOMAIN trace : trace[i].op = "read"}
StepPackets(step) == {i \in Packets : trace[i].step = step}

\* the steps of program_mcu that talk to the MCU, and their order
ProgramSteps == {"handshake", "erase", "program", "options"}
StepRank(step) ==
    CASE step = "handshake"  -> 1
      [] step = "erase"      -> 2
      [] step = "program"    -> 3
      [] step = "options"    -> 4
      [] step = "disconnect" -> 5
      [] OTHER               -> 0

\* the type byte the handler of a step compares the answer to request cmd
\* with
ExpectedType(family, step, cmd) ==
    CASE family = "stc89" ->
             (IF step \in {"erase", "program"} THEN 128 ELSE cmd)
      [] family = "stc12a" ->
             (IF step = "handshake" THEN cmd ELSE 128)
      [] family = "stc15" ->
             (IF step = "program" THEN 2 ELSE cmd)
      [] OTHER ->
             (CASE step = "handshake" /\ cmd = 80  -> 143
                [] step = "handshake" /\ cmd = 142 -> 132
                [] step = "erase"                  -> 0
                [] step = "program" /\ cmd = 0     -> 0
                [] step = "program" /\ cmd = 105   -> 141
                [] step = "options"                -> 80
                [] OTHER                           -> cmd)

\* the first operation op among positions lo..hi of the trace, 0 when there
\* is none (by halving, so that long traces need no deep recursion)
RECURSIVE FirstIn(_, _, _)
FirstIn(lo, hi, op) ==
    IF lo > hi THEN 0
    ELSE IF lo = hi THEN (IF trace[lo].op = op THEN lo ELSE 0)
    ELSE LET mid  == (lo + hi) \div 2
             left == FirstIn(lo, mid, op)
         IN  IF left # 0 THEN left ELSE FirstIn(mid + 1, hi, op)

\* the first read_packet and the first write_packet after operation i
NextRead(i) == FirstIn(i + 1, Len(trace), "read")
NextPacket(i) == FirstIn(i + 1, Len(trace), "packet")

\* request i was answered: the next read returned a packet with the expected
\* type byte, and no other request was written before it
Acked(i) ==
    /\ NextRead(i) # 0
    /\ NextPacket(i) # 0 => NextRead(i) < NextPacket(i)
    /\ trace[NextRead(i)].res = "ok"
    /\ Len(trace[NextRead(i)].data) >= 1
    /\ trace[NextRead(i)].data[1]
           = ExpectedType(opts.protocol, trace[i].step, trace[i].data[1])

\* a request of handshake, erase, program or options that was followed by
\* another one
Followed(i) ==
    /\ trace[i].step \in ProgramSteps
    /\ \E j \in Packets : i < j /\ trace[j].step \in ProgramSteps

\* packets leave in the order of the steps
InStepOrder ==
    \A i \in Packets :
        NextPacket(i) # 0 =>
            StepRank(trace[i].step) <= StepRank(trace[NextPacket(i)].step)

\* number of exchanges of a complete handshake
HandshakeExchanges(family) ==
    CASE family \in {"stc89", "stc12a"} -> 6
      [] family = "stc12"               -> 3
      [] family = "stc15a"              -> 4
      [] OTHER -> IF protocol.external_clock THEN 2 ELSE 4

\* the block packets of program_flash, and the finish packets that follow
\* the last block in the classes that send one
BlockPackets == {i \in StepPackets("program") : trace[i].data[1] \in {0, 2, 34}}
FinishPackets == {i \in StepPackets("program") : trace[i].data[1] = 105}
HasFinish(family) == family \in {"stc12", "stc15a"}

\* the address of the block a packet of program_flash carries
BlockAddress(data) ==
    IF data[1] = 0 THEN Slice(data, 3, 5) ELSE Slice(data, 1, 3)

\* no step is entered twice: one erase, one option packet, one reset, each
\* block address once, and no more handshake exchanges than the handshake has
EachStepOnce ==
    /\ Cardinality(StepPackets("erase")) <= 1
    /\ Cardinality(StepPackets("options")) <= 1
    /\ Cardinality(StepPackets("disconnect")) <= 1
    /\ Cardinality(StepPackets("handshake"))
           <= HandshakeExchanges(opts.protocol)
    /\ StepPackets("program") = BlockPackets \cup FinishPackets
    /\ Cardinality(FinishPackets) <= 1
    /\ \A i, j \in BlockPackets :
           i # j => BlockAddress(trace[i].data) # BlockAddress(trace[j].data)

\* the whole of program_mcu ran: every exchange of every step was answered,
\* and the reset was the last packet
Completed ==
    /\ Cardinality(StepPackets("handshake"))
           = HandshakeExchanges(opts.protocol)
    /\ Cardinality(StepPackets("erase")) = 1
    /\ Cardinality(BlockPackets) * PROGRAM_BLOCKSIZE(opts.protocol)
           = Len(bindata)
    /\ Len(bindata) >= Len(opts.code_image.data)
    /\ HasFinish(opts.protocol) => Cardinality(FinishPackets) = 1
    /\ Cardinality(StepPackets("options")) = 1
    /\ \A i \in Packets : trace[i].step \in ProgramSteps => Acked(i)
    /\ \E i \in StepPackets("disconnect") :
           /\ trace[i].data = <<130>>
           /\ \A j \in Packets : j <= i

\* the last two serial operations were the reset packet and the close
EndsWithDisconnect ==
    /\ Len(trace) >= 2
    /\ trace[Len(trace) - 1].op = "packet"
    /\ trace[Len(trace) - 1].data = <<130>>
    /\ trace[Len(trace)].op = "close"
    /\ ser.state = "closed"

-----------------------------------------------------------------------------
(* Properties *)

\* C1 (as amended): packets leave in the order handshake, erase, program,
\* options, disconnect; a packet of handshake, erase, program or options is
\* sent only after every earlier request of these steps was answered with
\* the expected type byte; no step runs twice; and a run with a code image
\* that connected and returned 0 completed all the steps.  The reset packet
\* of disconnect, however, is also sent by the error handlers.
C1_StepOrder ==
    /\ InStepOrder
    /\ \A i \in Packets : Followed(i) => Acked(i)
    /\ EachStepOnce
    /\ (pc = "returned" /\ ret = 0 /\ opts.code_image.given /\ ~opts.version)
           => Completed

\* C1 witness: a run with a code image went through all steps and returned 0
C1_Witness ==
    /\ pc = "returned" /\ ret = 0
    /\ opts.code_image.given /\ ~opts.version
    /\ Completed
    /\ Cardinality(StepPackets("program")) >= 4

\* C1 as stated: a packet of any later step, the disconnect included, only
\* after every exchange of the preceding steps was answered, and every run
\* with a code image that connected and returned 0 completed all steps
C1_AsStated ==
    /\ InStepOrder
    /\ \A j \in Packets :
           trace[j].step \in ProgramSteps \cup {"disconnect"} =>
               /\ \A i \in Packets :
                      (i < j /\ trace[i].step \in ProgramSteps) => Acked(i)
               /\ (trace[j].step = "disconnect" /\ opts.code_image.given)
                      => StepPackets("options") # {}
    /\ EachStepOnce
    /\ (pc = "returned" /\ ret = 0 /\ opts.code_image.given /\ ~opts.version)
           => Completed

\* errors the except clauses of run name: framing, protocol, option,
\* serial port and I/O errors
NamedErrors == ProtocolErrors \cup IOErrors \cup {"NameError"}

C3_AsStated ==
    /\ uncaught = "none"
    /\ pc # "raised"
    /\ pc = "returned" => ret >= 0

\* the errors C4 lists; a read timeout reaches run only after connect
ListedErrors ==
    ProtocolErrors \cup {"NameError", "IOError", "SerialTimeoutException"}

\* C4 as stated: a session that ends with one of the listed errors while
\* the port is open sends the reset packet and closes the port before run
\* returns its non-zero exit code
C4_AsStated ==
    (pc = "returned" /\ exc \in ListedErrors /\ ser.state # "none")
        => (ret # 0 /\ EndsWithDisconnect)

\* C5 as stated: after a user interrupt run returns 2 and the port, if it
\* was opened, is closed
C5_AsStated ==
    (pc = "returned" /\ exc = "KeyboardInterrupt")
        => (ret = 2 /\ ser.state # "open")

\* a read_packet that ended with a framing error or a timeout
FailedRead(k) == k \in Reads /\ trace[k].res \in {"framing", "timeout"}

\* C6: a framing error or a read timeout in the loop of connect is passed
\* over and followed by the next pulse and read; after connect the first
\* one ends the session: nothing but the disconnect follows it, the
\* exchange is not repeated and run returns 1.
C6_RetryOnlyInConnect ==
    \A k \in Reads : FailedRead(k) =>
        IF trace[k].step = "connect"
        THEN /\ k < Len(trace) =>
                   \/ trace[k + 1].op = "pulse" /\ trace[k + 1].step = "connect"
                   \/ exc = "KeyboardInterrupt"
             /\ k = Len(trace) => (pc = "sync" \/ exc = "KeyboardInterrupt")
        ELSE /\ \A j \in DOMAIN trace : j > k => trace[j].step = "disconnect"
             /\ \A j \in Reads : j <= k
             /\ pc \in {"except2", "returned"}
             /\ exc = (IF trace[k].res = "framing" THEN "StcFramingException"
                       ELSE "SerialTimeoutException")
             /\ pc = "returned" => ret = 1

\* C6 witness: a framing error in the loop of connect was passed over, and
\* a read timeout in the erase exchange ended the session
C6_Witness ==
    /\ pc = "returned" /\ ret = 1
    /\ \E k \in Reads : trace[k].step = "connect" /\ trace[k].res = "framing"
    /\ \E k \in Reads : trace[k].step = "erase" /\ trace[k].res = "timeout"

\* the status packet type of each class, and where its magic and its
\* option bytes are
StatusLayout(family) ==
    [type   |-> IF family \in {"stc89", "stc12a"} THEN 0 ELSE 80,
     magic  |-> 20]

\* the option bytes of a status packet
StatusMsr(family, packet) ==
    CASE family = "stc89"  -> Slice(packet, 19, 20)
      [] family = "stc12a" -> Slice(packet, 23, 28)
      [] family = "stc12"  -> Slice(packet, 23, 27)
      [] family = "stc15a" -> Slice(packet, 23, 36)
      [] OTHER             -> Slice(packet, 5, 8) \o Slice(packet, 12, 13)

\* positions of run after connect has returned
AfterConnect ==
    pc \notin ConnectPcs \cup EndPcs \cup {"start", "except1"}

\* connect returned on a status packet of the expected type, and magic,
\* model and option bytes are those of the packet
ConnectedOnStatus ==
    LET lay == StatusLayout(opts.protocol)
    IN  /\ \E k \in Reads :
               /\ trace[k].step = "connect"
               /\ \A m \in Reads : trace[m].step = "connect" => m <= k
               /\ trace[k].res = "ok"
               /\ trace[k].data = status_packet
        /\ status_packet[1] = lay.type
        /\ protocol.mcu_magic
               = UnpackH(Slice(status_packet, lay.magic, lay.magic + 2))
        /\ protocol.model.magic = protocol.mcu_magic
        /\ (\E k \in DOMAIN models : models[k].magic = protocol.mcu_magic)
               => protocol.model \in {models[k] : k \in DOMAIN models}
        /\ pc \in {"main", "load", "emit_options"}
               => protocol.options = StatusMsr(opts.protocol, status_packet)

\* every read of the loop of connect comes right after a 0x7f pulse
PulseBeforeRead ==
    \A k \in Reads : trace[k].step = "connect" =>
        /\ k > 1
        /\ trace[k - 1].op = "pulse"
        /\ trace[k - 1].data = <<127>>

\* C7: connect returns normally only on a well-formed status packet of the
\* expected type, with magic, model and options decoded from it; every read
\* of the loop comes after a pulse; and the loop ends once the MCU answers
\* with a status packet after finitely many faulty attempts.
C7_Connect ==
    /\ [](AfterConnect => ConnectedOnStatus)
    /\ []PulseBeforeRead
    /\ (pc = "sync") ~> (pc \in {"main", "except1"})

\* C7 witness: connect returned after a faulty attempt
C7_Witness ==
    /\ pc = "main"
    /\ ConnectedOnStatus
    /\ \E k \in Reads : FailedRead(k)
    /\ protocol.model.name # "UNKNOWN"

\* request i was written and read_packet was called before the next request
ReadBeforeNext(i) ==
    NextPacket(i) # 0 => (NextRead(i) # 0 /\ NextRead(i) < NextPacket(i))

\* C8 (as amended): between two write_packet calls there is a read_packet
\* call, except that the reset of disconnect follows a request directly
\* when the user interrupts between the write and the read; no request but
\* the reset and an interrupted one stays without a read.
C8_HalfDuplex ==
    /\ \A i \in Packets :
           \/ ReadBeforeNext(i)
           \/ /\ trace[NextPacket(i)].step = "disconnect"
              /\ exc = "KeyboardInterrupt"
    /\ \A i \in Packets :
           (NextRead(i) = 0 /\ pc \in EndPcs) =>
               \/ trace[i].step = "disconnect"
               \/ exc = "KeyboardInterrupt"

\* C8 witness: a session of several exchanges ended with the reset
C8_Witness ==
    /\ pc = "returned"
    /\ Cardinality(Packets) >= 3
    /\ \A i \in Packets : ReadBeforeNext(i)
    /\ StepPackets("disconnect") # {}

\* C8 as stated: between any two write_packet calls there is a read_packet
\* call
C8_AsStated == \A i \in Packets : ReadBeforeNext(i)

\* the option codec each protocol class builds in initialize_options
OptionClass(family) ==
    CASE family = "stc89"  -> "Stc89Option"
      [] family = "stc12a" -> "Stc12AOption"
      [] family = "stc12"  -> "Stc12Option"
      [] family = "stc15a" -> "Stc15AOption"
      [] OTHER             -> "Stc15Option"

\* an override that is malformed, names no option or carries no valid value
BadOption(o) ==
    \/ ~o.eq
    \/ o.name \notin Names[OptionClass(opts.protocol)]
    \/ o.val = "bogus"
HasBadOption == \E k \in DOMAIN opts.option : BadOption(opts.option[k])

\* C9 (as amended): overrides are applied after connect and before the
\* first handshake packet; when program_mcu meets a bad override run
\* returns 1 and no packet but the reset is sent.  Without a code image the
\* overrides are not looked at.
C9_Options ==
    /\ pc \in ConnectPcs \cup {"start"} => protocol.options = <<>>
    /\ StepPackets("handshake") # {} => ~HasBadOption
    /\ pc = HandshakeEntry(opts.protocol) =>
           /\ StepPackets("handshake") = {}
           /\ protocol.options
                  = emit_options(opts.protocol,
                        StatusMsr(opts.protocol, status_packet),
                        opts.option, 1).msr
    /\ HasBadOption => \A i \in Packets : trace[i].step \notin ProgramSteps
    /\ exc = "NameError" =>
           /\ HasBadOption /\ opts.code_image.given
           /\ pc = "returned" => (ret = 1 /\ EndsWithDisconnect)

\* C9 witness: a bad override ended the session
C9_Witness ==
    /\ pc = "returned" /\ ret = 1 /\ exc = "NameError"
    /\ EndsWithDisconnect
    /\ Cardinality(Packets) = 1

\* C9 as stated: with a bad override a session that connects, and that no
\* interrupt or other error ends, returns 1
C9_AsStated ==
    (HasBadOption /\ pc = "returned" /\ ~opts.version /\ exc \in {"none", "NameError"})
        => ret = 1

\* C10 (as amended): read_packet returns the payload of the frame the MCU
\* builds around it (the frame of write_packet with the direction byte of
\* the MCU), for both dialects and every length up to 65529, and takes the
\* whole frame from the input.
C10_RoundTrip ==
    (frame.pc = "done" /\ frame.src = "mcu" /\ frame.fault = "none") =>
        /\ frame.result.kind = "ok"
        /\ frame.result.payload = frame.payload
        /\ frame.result.used = Len(frame.wire)

\* C10 witness: the longest payload came back
C10_Witness ==
    /\ frame.pc = "done" /\ frame.src = "mcu" /\ frame.fault = "none"
    /\ Len(frame.payload) = 65529
    /\ frame.dialect = "B"
    /\ frame.result.payload = frame.payload

\* C10 as stated: read_packet returns the payload from the bytes
\* write_packet produced
C10_AsStated ==
    (frame.pc = "done" /\ frame.src = "host") =>
        /\ frame.result.kind = "ok"
        /\ frame.result.payload = frame.payload

-----------------------------------------------------------------------------
(* Framing claims, checked in the framing experiment (FrameSpec) *)

\* the bytes of frame w the checksum covers: from the direction byte through
\* the last payload byte, for a checksum of c bytes
Covered(w, c) == SumRange(w, 3, Len(w) - 1 - c)

\* C11: for a payload of n bytes write_packet emits 0x46 0xB9 0x6A, the
\* length big-endian in two bytes, the payload, the checksum and 0x16; the
\* length is n+5 and the checksum one byte (sum from the direction byte
\* through the last payload byte mod 256) in dialect A, n+6 and two bytes
\* big-endian (the same sum mod 65536) in dialect B; and read_packet accepts
\* a frame that is otherwise right exactly when its checksum is the sum
\* over that range.
C11_WriteLayout ==
    LET w == frame.wire
        n == Len(frame.payload)
        c == IF frame.dialect = "A" THEN 1 ELSE 2
    IN  /\ frame.pc = "written" =>
            /\ Len(w) = n + 6 + c
            /\ w[1] = 70 /\ w[2] = 185 /\ w[3] = 106
            /\ w[4] * 256 + w[5] = n + 4 + c
            /\ \A k \in 1..n : w[5 + k] = frame.payload[k]
            /\ IF c = 1 THEN w[n + 6] = Covered(w, 1) % 256
               ELSE w[n + 6] * 256 + w[n + 7] = Covered(w, 2) % 65536
            /\ w[Len(w)] = 22
        /\ (frame.pc = "done" /\ frame.src = "mcu"
                /\ frame.fault \in {"none", "csum", "data"}) =>
            (frame.result.kind = "ok" <=>
                IF c = 1 THEN w[Len(w) - 1] = Covered(w, 1) % 256
                ELSE w[Len(w) - 2] * 256 + w[Len(w) - 1] = Covered(w, 2) % 65536)

\* C11 witness: a dialect B frame whose sum does not fit one byte has been
\* written
C11_Witness ==
    /\ frame.pc = "written"
    /\ frame.dialect = "B"
    /\ frame.payload = <<255, 255>>
    /\ frame.wire = <<70, 185, 106, 0, 8, 255, 255, 2, 112, 22>>

\* the packet read_packet works on when b is what arrives: dialect A puts
\* the start magic in front of input that begins with the direction byte
Reconstructed(dialect, b) ==
    IF dialect = "A" /\ b # <<>> /\ b[1] = 104 THEN <<70, 185>> \o b ELSE b

\* packet p has the start magic, the direction byte of the MCU, a length
\* field L it is long enough for, the end byte at the place L gives and,
\* before it, the checksum of c bytes over direction byte .. last payload
\* byte
WellFormed(p, c) ==
    /\ Len(p) >= 5
    /\ p[1] = 70 /\ p[2] = 185
    /\ p[3] = 104
    /\ LET L == p[4] * 256 + p[5]
       IN  /\ L >= 3
           /\ Len(p) >= L + 2
           /\ p[L + 2] = 22
           /\ IF c = 1 THEN p[L + 1] = SumRange(p, 3, L) % 256
              ELSE p[L] * 256 + p[L + 1] = SumRange(p, 3, L - 1) % 65536

\* what one read of input b in dialect d must have given as result r
ReadChecked(d, b, r) ==
    LET p == Reconstructed(d, b)
        c == IF d = "A" THEN 1 ELSE 2
    IN  IF WellFormed(p, c)
        THEN /\ r.kind = "ok"
             /\ p[4] * 256 + p[5] >= 4 + c
             /\ r.payload = Slice(p, 5, p[4] * 256 + p[5] + 1 - c)
        ELSE /\ r.kind \in {"framing", "timeout"}
             /\ r.payload = <<>>

\* C12 (as amended): read_packet returns a payload only if the start magic
\* is 0x46 0xB9 -- or, in dialect A, the input begins with the direction
\* byte and the start magic is taken as read --, the direction byte is 0x68,
\* the byte at the position the length field gives is 0x16 and the checksum
\* received is the one computed; in every other case, and whenever the
\* length field is too small for a frame, it raises a framing error or a
\* timeout and returns nothing.
C12_ReadChecks ==
    /\ frame.pc \in {"done", "done_bare"} =>
           ReadChecked(frame.dialect, frame.wire, frame.result)
    /\ frame.pc = "done_bare" =>
           ReadChecked(frame.dialect, Slice(frame.wire, 2, Len(frame.wire)),
                       frame.bare)

\* C12 witness: a frame whose length field says 4, with the checksum right
\* for its bytes and the end byte in place, has been refused
C12_Witness ==
    /\ frame.pc = "done"
    /\ frame.fault = "len"
    /\ frame.dialect = "A"
    /\ frame.wire = <<70, 185, 104, 0, 4, 108, 22>>
    /\ frame.result.kind = "framing"

\* C12 as stated: read_packet returns a payload only if the bytes received
\* begin with the start magic 0x46 0xB9
C12_AsStated ==
    /\ (frame.pc \in {"done", "done_bare"} /\ frame.result.kind = "ok") =>
           Slice(frame.wire, 0, 2) = <<70, 185>>
    /\ (frame.pc = "done_bare" /\ frame.bare.kind = "ok") =>
           Slice(frame.wire, 2, 4) = <<70, 185>>

\* C13: in dialect A a frame received without the start magic (first byte
\* 0x68) is decoded as the same frame with the start magic in front: the
\* same payload, and the same refusal when the end byte or the checksum is
\* wrong; in dialect B a frame without the start magic is a framing error.
C13_MagicOmitted ==
    (frame.pc = "done_bare" /\ frame.wire[3] = 104) =>
        IF frame.dialect = "A"
        THEN /\ frame.bare.kind = frame.result.kind
             /\ frame.bare.payload = frame.result.payload
             /\ frame.fault = "none" =>
                    (frame.bare.kind = "ok" /\ frame.bare.payload = frame.payload)
             /\ frame.fault \in {"end", "csum"} => frame.bare.kind = "framing"
        ELSE frame.bare.kind = "framing"

\* C13 witness: dialect A decoded a frame without start magic, and refused
\* another for its checksum
C13_Witness ==
    /\ frame.pc = "done_bare"
    /\ frame.dialect = "A"
    /\ frame.wire[3] = 104
    /\ frame.payload = <<70, 104>>
    /\ \/ frame.fault = "none" /\ frame.bare.kind = "ok"
                               /\ frame.bare.payload = <<70, 104>>
       \/ frame.fault = "csum" /\ frame.bare.kind = "framing"

-----------------------------------------------------------------------------
(* Registry claim, checked in the registry experiment (RegistrySpec) *)

\* the positions of the registry entries with magic m
Entries(m) == {k \in 1..Len(models) : models[k].magic = m}

\* C14: every magic of the registry belongs to one entry only, except 0xF294
\* and 0xF2D4, each shared by an E and a W variant; for every other magic of
\* the registry find_model returns the one entry that has it.
C14_UniqueMagic ==
    (unit.exp = "registry" /\ unit.pc \in {"found", "done"}) =>
        LET hits == Entries(unit.magic)
        IN  /\ unit.magic = 62100 =>
                {models[k].name : k \in hits} = {"STC15F104W", "STC15F104E"}
            /\ unit.magic = 62164 =>
                {models[k].name : k \in hits} = {"STC15L104W", "STC15L104E"}
            /\ (unit.magic \notin {62100, 62164} /\ hits # {}) =>
                /\ Cardinality(hits) = 1
                /\ ~unit.found.raised
                /\ \A k \in hits : unit.found.model = models[k]

\* C14 witness: the last entry of the registry has been looked up and found
C14_Witness ==
    /\ unit.exp = "registry"
    /\ unit.pc = "found"
    /\ unit.magic = 61712
    /\ unit.found.model.name = "STC89C/LE516RD+"
    /\ unit.found.model.code = 63488

-----------------------------------------------------------------------------
(* Option codec claims, checked in the codec experiment (CodecSpec) *)

\* the MSR byte (Python index) and the bits in it that each option owns
Owned == [codec \in Codecs |-> [name \in Names[codec] |->
             LET k == CHOOSE j \in 1..Len(Options[codec]) :
                          Options[codec][j][1] = name
             IN  <<Options[codec][k][2], Options[codec][k][3]>>]]

\* the bits of MSR byte i (Python index) that the options in names own
RECURSIVE OwnedMask(_, _, _)
OwnedMask(codec, names, i) ==
    IF names = {} THEN 0
    ELSE LET n == CHOOSE x \in names : TRUE
         IN  BitOr(IF Owned[codec][n][1] = i THEN Owned[codec][n][2] ELSE 0,
                   OwnedMask(codec, names \ {n}, i))

\* MSR a and b are equal outside the bits the options in names own
SameOutside(codec, names, a, b) ==
    /\ Len(a) = Len(b)
    /\ \A i \in 1..Len(a) :
           BitAnd(a[i], 255 - OwnedMask(codec, names, i - 1))
               = BitAnd(b[i], 255 - OwnedMask(codec, names, i - 1))

\* C15: a successful set changes only the MSR bits the option owns (its
\* byte and mask); after any sequence of sets the MSR differs from the one
\* the object was built over only in bits of options that were set.
C15_OwnedBitsOnly ==
    unit.exp = "codec" =>
        /\ (unit.pc = "set" /\ unit.error = "none") =>
               SameOutside(unit.codec, {unit.name}, unit.msr, unit.prev)
        /\ unit.pc \in {"ready", "set"} =>
               SameOutside(unit.codec, unit.touched, unit.msr, unit.msr0)

\* C15 witness: two options that share an MSR byte have been set one after
\* the other, and each changed its own bit
C15_Witness ==
    /\ unit.exp = "codec"
    /\ unit.pc = "set"
    /\ unit.codec = "Stc12Option"
    /\ unit.msr0 = <<255, 255, 255, 255>>
    /\ unit.touched = {"clock_source", "clock_gain"}
    /\ unit.name = "clock_gain" /\ unit.val = "low"
    /\ unit.prev = <<255, 253, 255, 255>>
    /\ unit.msr = <<255, 189, 255, 255>>

\* C16 as stated: an option set to the value it shows, and read again from
\* an object built over the resulting MSR, shows the same value
C16_AsStated ==
    (unit.exp = "codec" /\ unit.pc = "tripped") =>
        /\ unit.error = "none"
        /\ unit.got = unit.val

\* C17: a set that fails (a name the class does not have: 'unknown'; a
\* value outside the allowed ones; an integer that cannot be parsed) leaves
\* every MSR byte as it was, and a name the class does not have or a string
\* that is no integer, given to an integer option, does fail.
C17_FailedSetKeepsMsr ==
    (unit.exp = "codec" /\ unit.pc = "set") =>
        /\ unit.error # "none" => unit.msr = unit.prev
        /\ unit.name \notin OptionNames(unit.codec) <=> unit.error = "unknown"
        /\ (/\ unit.name \in OptionNames(unit.codec)
            /\ IntOf(Option_get(unit.codec, unit.prev, unit.name)) >= 0
            /\ IntOf(unit.val) < 0) => unit.error = "value"

\* C17 witness: 3 is no watchdog prescaler; the set failed after another
\* option had been set, and the MSR is as that set left it
C17_Witness ==
    /\ unit.exp = "codec"
    /\ unit.pc = "set"
    /\ unit.codec = "options.Stc15Option"
    /\ unit.name = "watchdog_prescale" /\ unit.val = "3"
    /\ unit.error = "value"
    /\ unit.touched = {"cpu_core_voltage"}
    /\ unit.msr = <<255, 255, 255, 255, 253>>
    /\ unit.msr = unit.prev

\* C18 as stated: get_option of a name the class has returns the value
\* print shows for it, without error; of another name it fails with
\* 'unknown'
C18_AsStated ==
    (unit.exp = "codec" /\ unit.pc = "got") =>
        IF unit.name \in OptionNames(unit.codec)
        THEN /\ unit.error = "none"
             /\ unit.got = Option_get(unit.codec, unit.msr, unit.name)
        ELSE unit.error = "unknown"

-----------------------------------------------------------------------------
(* The option bytes written back by program_options *)

\* where program_options of each class puts the MSR in its packet: after
\* the 0x8d of the packet, or, in Stc15Protocol, msr[3] 33 bytes before the
\* end and msr[0:3] at the end
PacketMsr(family, packet) ==
    CASE family = "stc89"  -> Slice(packet, 1, 2)
      [] family = "stc12a" -> Slice(packet, 1, 6)
      [] family = "stc12"  -> Slice(packet, 1, 5)
      [] family = "stc15a" -> Slice(packet, 1, 14)
      [] OTHER             ->
            Slice(packet, Len(packet) - 3, Len(packet))
                \o Slice(packet, Len(packet) - 33, Len(packet) - 32)

\* the names of the overrides of the command line
Overridden == {opts.option[k].name : k \in DOMAIN opts.option}

\* the answers to the trim rounds of Stc15AProtocol.handshake, and the trim
\* chosen from the last of them
TrimReads ==
    {k \in Reads : /\ trace[k].step = "handshake"
                   /\ trace[k].res = "ok"
                   /\ Len(trace[k].data) >= 56
                   /\ trace[k].data[1] = 101}
SelectedTrim ==
    LET k == CHOOSE x \in TrimReads : \A y \in TrimReads : y <= x
    IN  BestTrim(trace[k].data, TrimCount(UserSpeed))

\* the MSR of the status packet as an MCU of the class gets it back when no
\* option is overridden: on 15A with the selected trim in bytes 3..4
Received ==
    LET got == StatusMsr(opts.protocol, status_packet)
    IN  IF opts.protocol = "stc15a"
        THEN Slice(got, 0, 3) \o PackH(SelectedTrim) \o Slice(got, 5, Len(got))
        ELSE got

\* C19: the MSR bytes in the packet of program_options are those of the
\* status packet except in the bits the overridden options own, on 15A
\* with bytes 3..4 holding the selected trim; they are the bytes
\* emit_options left, and clock_source=external alone on Stc12Protocol
\* sends the received MSR with bit 1 of byte 1 set.
C19_OptionsWrittenBack ==
    \A i \in StepPackets("options") :
        LET f    == opts.protocol
            sent == PacketMsr(f, trace[i].data)
            got  == StatusMsr(f, status_packet)
        IN  /\ Overridden \subseteq Names[OptionClass(f)]
            /\ SameOutside(OptionClass(f), Overridden, sent, Received)
            /\ f # "stc15a" => sent = emit_options(f, got, opts.option, 1).msr
            /\ (f = "stc12" /\ opts.option = <<Opt("clock_source", "external")>>)
                   => sent = [got EXCEPT ![2] = BitOr(@, 2)]

\* C19 witness: Stc12Protocol got a status packet with the internal clock
\* selected, clock_source=external was given, and the option packet
\* carries the MSR with that one bit set
C19_Witness ==
    /\ opts.protocol = "stc12"
    /\ opts.option = <<Opt("clock_source", "external")>>
    /\ status_packet = Status12Int
    /\ \E i \in StepPackets("options") :
           PacketMsr("stc12", trace[i].data) = <<255, 255, 247, 255>>
    /\ pc = "returned" /\ ret = 0

\* C19 witness on 15A: an override was given and the option packet carries
\* the selected trim
C19_TrimWritten ==
    /\ opts.protocol = "stc15a"
    /\ opts.option # <<>>
    /\ \E i \in StepPackets("options") :
           /\ Slice(PacketMsr("stc15a", trace[i].data), 3, 5)
                  = PackH(SelectedTrim)
           /\ PacketMsr("stc15a", trace[i].data)
                  # StatusMsr("stc15a", status_packet)

-----------------------------------------------------------------------------
(* The baudrate register of the handshakes of Stc89Protocol, *)
(* Stc12AProtocol and Stc12Protocol                           *)

SimpleFamilies == {"stc89", "stc12a", "stc12"}

\* round(mcu_clock_hz / (baud_transfer * sample_rate))
Divider(sample_rate) ==
    Round(protocol.mcu_clock_hz.n,
          protocol.mcu_clock_hz.d * BaudTransfer * sample_rate)

\* brt of calculate_baud for the clock measured: sixteen bits wide in
\* Stc89Protocol, eight bits in the other two
MeasuredBrt ==
    IF opts.protocol = "stc89"
    THEN 65536 - Divider(IF protocol.cpu_6t THEN 16 ELSE 32)
    ELSE 256 - Divider(16)

\* the packets 0x8f (check) and 0x8e (set) of the handshake, and the brt
\* they carry
BaudPackets ==
    {i \in StepPackets("handshake") : trace[i].data[1] \in {143, 142}}
CheckPackets ==
    {i \in StepPackets("handshake") : trace[i].data[1] = 143}
PacketBrt(data) ==
    IF opts.protocol = "stc89" THEN UnpackH(Slice(data, 1, 3)) ELSE data[3]

\* handshake raised StcProtocolException before it sent anything
RejectedAtEntry ==
    /\ \/ pc = "except2"
       \/ pc = "returned" /\ EndsWithDisconnect /\ ConnectedOnStatus
    /\ exc = "StcProtocolException"
    /\ StepPackets("handshake") = {}

\* C20 (as amended): Stc12AProtocol and Stc12Protocol raise
\* StcProtocolException before any handshake packet exactly when brt <= 1
\* or brt > 255 (255 is accepted); Stc89Protocol makes no such check on
\* its 16 bit brt; every check and set packet carries brt and the checksum
\* (2 * (256 - brt)) mod 256.
C20_BaudRegister ==
    opts.protocol \in SimpleFamilies =>
        /\ \A i \in BaudPackets :
               /\ PacketBrt(trace[i].data) = MeasuredBrt
               /\ trace[i].data[5] = (2 * (256 - MeasuredBrt)) % 256
        /\ opts.protocol # "stc89" =>
               /\ (MeasuredBrt <= 1 \/ MeasuredBrt > 255)
                      => StepPackets("handshake") = {}
               /\ RejectedAtEntry => (MeasuredBrt <= 1 \/ MeasuredBrt > 255)
        /\ opts.protocol = "stc89" => ~RejectedAtEntry

\* C20 witness: Stc12Protocol measured a clock that gives brt = 1, and the
\* session ended with a protocol error and no handshake packet
C20_Witness ==
    /\ opts.protocol = "stc12"
    /\ status_packet = Status12Fast
    /\ MeasuredBrt = 1
    /\ RejectedAtEntry
    /\ pc = "returned" /\ ret = 1

\* C20, the register value 255: Stc12AProtocol sent its check packet with
\* brt = 255 and checksum 2
C20_Brt255Sent ==
    /\ opts.protocol = "stc12a"
    /\ MeasuredBrt = 255
    /\ \E i \in CheckPackets : /\ trace[i].data[3] = 255
                               /\ trace[i].data[5] = 2

\* C20 as stated: in the three classes no check packet is sent when brt is
\* not strictly between 1 and 255
C20_AsStated ==
    (opts.protocol \in SimpleFamilies /\ ~(1 < MeasuredBrt /\ MeasuredBrt < 255))
        => CheckPackets = {}

\* C20 as stated, with the 8 bit register value 256 - round(...) taken for
\* Stc89Protocol too
C20_AsStated8 ==
    (opts.protocol = "stc89" /\ ~(1 < 256 - (65536 - MeasuredBrt)
                                  /\ 256 - (65536 - MeasuredBrt) < 255))
        => CheckPackets = {}

-----------------------------------------------------------------------------
(* The baud calculator of the 12 series *)

\* clk / (baud * 16) of the experiment lies strictly between lo and hi
RatioBetween(lo, hi) ==
    /\ lo * unit.clk.d * unit.baud * 16 < unit.clk.n
    /\ unit.clk.n < hi * unit.clk.d * unit.baud * 16

\* the divider the code takes: round(clk / (baud * 16))
BaudDivider == Round(unit.clk.n, unit.clk.d * unit.baud * 16)

\* the error of the baudrate clk / (16 * n) against the target is at most
\* num / den
BaudErrorAtMost(n, num, den) ==
    Abs(unit.baud * unit.clk.d * 16 * n - unit.clk.n) * den
        <= num * unit.baud * unit.clk.d * 16 * n

\* C21 (as amended): calculate_baud returns a BRT exactly when
\* round(clk / (baud * 16)) lies in 1..254; the BRT is 256 minus that
\* divider; the reconstructed baud is off by at most 1 / (2 * divider) of
\* the target, no more than 5% from divider 10 on, and an error above 5%
\* is returned with a warning.
C21_BaudCalculator ==
    (unit.exp = "baud" /\ unit.pc = "done") =>
        /\ unit.result.returned <=> BaudDivider \in 1..254
        /\ unit.result.returned =>
               /\ unit.result.brt = 256 - BaudDivider
               /\ BaudErrorAtMost(BaudDivider, 1, 2 * BaudDivider)
               /\ BaudDivider >= 10 => BaudErrorAtMost(BaudDivider, 1, 20)
               /\ unit.result.warn <=> ~BaudErrorAtMost(BaudDivider, 1, 20)
        /\ ~unit.result.returned => ~unit.result.warn

\* C21 witness: a ratio inside the range for which a BRT within 5% came
\* back
C21_Witness ==
    /\ unit.exp = "baud" /\ unit.pc = "done"
    /\ RatioBetween(1, 255)
    /\ unit.result.returned
    /\ unit.result.brt = 256 - 36
    /\ BaudErrorAtMost(36, 1, 20)

\* C21 as stated: inside the range a BRT within 5% is returned, outside
\* of it none
C21_AsStated ==
    (unit.exp = "baud" /\ unit.pc = "done") =>
        IF RatioBetween(1, 255)
        THEN /\ unit.result.returned
             /\ BaudErrorAtMost(256 - unit.result.brt, 1, 20)
        ELSE ~unit.result.returned

\* C21 as stated, the first half alone: inside the range a BRT is returned
C21_AsStatedReturned ==
    (unit.exp = "baud" /\ unit.pc = "done" /\ RatioBetween(1, 255))
        => unit.result.returned

\* C21 as stated, the bound alone: a BRT that is returned is within 5%
C21_AsStatedError ==
    (unit.exp = "baud" /\ unit.pc = "done" /\ unit.result.returned)
        => BaudErrorAtMost(256 - unit.result.brt, 1, 20)

\* C21 as stated, the second half alone: outside the range none is returned
C21_AsStatedUnreachable ==
    (unit.exp = "baud" /\ unit.pc = "done" /\ ~RatioBetween(1, 255))
        => ~unit.result.returned

-----------------------------------------------------------------------------
(* The first calibration round of Stc15Protocol *)

\* the answer to the first packet of the handshake, when one was read
HandshakeReads ==
    {k \in Reads : trace[k].step = "handshake" /\ trace[k].res = "ok"}
FirstAnswer ==
    trace[CHOOSE k \in HandshakeReads : \A j \in HandshakeReads : k <= j].data

\* calibrate got an answer of type 0 to its first round that carries the
\* twelve counts it announces
Round1Answered ==
    /\ opts.protocol = "stc15"
    /\ ~protocol.external_clock
    /\ HandshakeReads # {}
    /\ Len(FirstAnswer) = 26
    /\ FirstAnswer[1] = 0
    /\ FirstAnswer[2] = 12

\* two neighbouring counts of the answer r enclose target
Bracketed(r, target) ==
    \E i \in 0..10 :
        LET a == UnpackH(Slice(r, 2 + 2 * i, 4 + 2 * i))
            b == UnpackH(Slice(r, 4 + 2 * i, 6 + 2 * i))
        IN  \/ a <= target /\ target <= b
            \/ b <= target /\ target <= a

\* the user frequency or the programming frequency has no such pair
NoRange ==
    \/ ~Bracketed(FirstAnswer, TargetCount(UserSpeed))
    \/ ~Bracketed(FirstAnswer, 18432)

\* packets sent after the first round, but for the reset of disconnect
AfterRound1 ==
    {i \in Packets : /\ trace[i].step # "disconnect"
                     /\ \E k \in HandshakeReads : k < i}

\* C22 as stated: when a target has no pair around it in the first round
\* the session ends with run returning 1 on StcProtocolException, and no
\* packet but the reset follows the round
C22_AsStated ==
    (Round1Answered /\ NoRange) =>
        /\ AfterRound1 = {}
        /\ pc \notin {"calibrate.2", "calibrate.set", "raised"}
        /\ pc = "returned" => (ret = 1 /\ exc = "StcProtocolException")

\* C22, the part that holds: when neither target has a pair around it, or
\* only one has and its pair has two different counts, the session ends
\* with run returning 1 on StcProtocolException right after the round
C22_Unsuccessful ==
    (Round1Answered /\ NoRange /\ exc # "ZeroDivisionError"
         /\ exc # "KeyboardInterrupt") =>
        /\ AfterRound1 = {}
        /\ pc \in {"except2", "returned"}
        /\ exc = "StcProtocolException"
        /\ pc = "returned" => (ret = 1 /\ EndsWithDisconnect)

\* C22, the run that shows the part that holds
C22_UnsuccessfulReached ==
    /\ Round1Answered /\ NoRange
    /\ FirstAnswer = Calib1Low
    /\ pc = "returned" /\ ret = 1 /\ exc = "StcProtocolException"

\* C22, the run that breaks it: the counts are flat at the target of the
\* programming frequency, and ZeroDivisionError leaves run
C22_DivisionByZero ==
    /\ Round1Answered /\ NoRange
    /\ FirstAnswer = Calib1Flat
    /\ pc = "raised" /\ uncaught = "ZeroDivisionError"

-----------------------------------------------------------------------------
(* The image that program_mcu hands to erase_flash and program_flash *)

\* length of the image of the experiment before the padding with 0xff
WholeLen ==
    IF unit.eeprom.given
    THEN unit.code_size + Min(Len(unit.eeprom.data), unit.ee_size)
    ELSE Min(Len(unit.code), unit.code_size + unit.ee_size)

\* C23: the image is the code file cut at code + eeprom size; with an
\* eeprom file the code part is filled with zeros or cut to the code size
\* and the eeprom file, cut at the eeprom size, follows at offset code
\* size; 0xff fills the image up to the next multiple of 512; before that
\* it is no longer than code + eeprom size.
C23_Image ==
    (unit.exp = "image" /\ unit.pc = "done") =>
        LET b == unit.bindata
        IN  /\ WholeLen <= unit.code_size + unit.ee_size
            /\ Len(b) % 512 = 0
            /\ WholeLen <= Len(b) /\ Len(b) < WholeLen + 512
            /\ \A k \in (WholeLen + 1)..Len(b) : b[k] = 255
            /\ ~unit.eeprom.given =>
                   \A k \in 1..WholeLen : b[k] = unit.code[k]
            /\ unit.eeprom.given =>
                   /\ \A k \in 1..unit.code_size :
                          b[k] = IF k <= Len(unit.code) THEN unit.code[k] ELSE 0
                   /\ \A k \in 1..(WholeLen - unit.code_size) :
                          b[unit.code_size + k] = unit.eeprom.data[k]

\* C23 witness: a code file longer than the code size and an eeprom file
\* longer than the eeprom size gave four code bytes, two eeprom bytes and
\* 506 bytes of padding
C23_Witness ==
    /\ unit.exp = "image" /\ unit.pc = "done"
    /\ unit.eeprom.given
    /\ Len(unit.code) > unit.code_size + unit.ee_size
    /\ Len(unit.eeprom.data) > unit.ee_size
    /\ Slice(unit.bindata, 0, 7) = <<2, 3, 4, 5, 130, 131, 255>>
    /\ Len(unit.bindata) = 512

\* C23 witness without an eeprom file: 1537 code bytes cut to the 1536
\* bytes of the model, no padding
C23_Truncated ==
    /\ unit.exp = "image" /\ unit.pc = "done"
    /\ ~unit.eeprom.given
    /\ Len(unit.code) = 1537
    /\ unit.bindata = Slice(unit.code, 0, 1536)

-----------------------------------------------------------------------------
(* The programming cycle of the test suite: Stc89Protocol, the image *)
(* "123456789", an STC89C52RC                                         *)

\* the session of test_program_stc89, once the status packet is in
Stc89Test ==
    /\ opts.protocol = "stc89"
    /\ opts.code_image = TestImage
    /\ opts.eeprom_image = NoFile
    /\ opts.option = <<>>
    /\ status_packet = Status89

\* the 128 data bytes a block packet of Stc89Protocol.program_flash
\* carries after its seven header bytes
BlockData(data) == Slice(data, 7, Len(data))

\* C24 (as amended): in that session the erase packet asks for 2 blocks,
\* the 512 bytes of the padded image go out in four packets of 128 data
\* bytes at the addresses 0, 128, 256 and 384, the first with the nine
\* bytes of the image and 0xff after them, the others all 0xff, and a
\* session that no error ends returns 0.
C24_Stc89Program ==
    Stc89Test =>
        /\ \A i \in StepPackets("erase") :
               trace[i].data = <<132, 2, 51, 51, 51, 51, 51, 51>>
        /\ \A i \in StepPackets("program") :
               /\ Len(trace[i].data) = 135
               /\ Slice(trace[i].data, 0, 3) = <<0, 0, 0>>
               /\ UnpackH(Slice(trace[i].data, 3, 5)) \in {0, 128, 256, 384}
               /\ UnpackH(Slice(trace[i].data, 5, 7)) = 128
               /\ BlockData(trace[i].data)
                      = IF UnpackH(Slice(trace[i].data, 3, 5)) = 0
                        THEN TestImage.data \o Fill(119, 255)
                        ELSE Fill(128, 255)
        /\ \A i, j \in StepPackets("program") :
               i < j => UnpackH(Slice(trace[i].data, 3, 5))
                            < UnpackH(Slice(trace[j].data, 3, 5))
        /\ StepPackets("options") # {} =>
               /\ Cardinality(StepPackets("erase")) = 1
               /\ Cardinality(StepPackets("program")) = 4
        /\ (pc = "returned" /\ exc = "none") =>
               /\ ret = 0
               /\ Cardinality(StepPackets("program")) = 4

\* C24 witness: the session ran to its end and returned 0 after one erase
\* packet and four block packets
C24_Witness ==
    /\ Stc89Test
    /\ pc = "returned" /\ ret = 0 /\ exc = "none"
    /\ locals.faults = 0
    /\ Cardinality(StepPackets("erase")) = 1
    /\ Cardinality(StepPackets("program")) = 4

\* C24 as stated: the session that returns 0 has sent the erase packet for
\* 2 blocks and exactly one block packet
C24_AsStated ==
    (Stc89Test /\ pc = "returned" /\ ret = 0) =>
        /\ \A i \in StepPackets("erase") : trace[i].data[2] = 2
        /\ Cardinality(StepPackets("program")) = 1

-----------------------------------------------------------------------------
(* The finish packet of Stc12Protocol.program_flash *)

\* the call of read_packet after packet i returned a payload
Answered(i) ==
    /\ i + 1 \in Reads
    /\ trace[i + 1].res = "ok"

\* block packet i was acknowledged: type 0 and the checksum of its data
BlockAcked(i) ==
    /\ Answered(i)
    /\ Len(trace[i + 1].data) >= 2
    /\ trace[i + 1].data[1] = 0
    /\ trace[i + 1].data[2] = SumRange(trace[i].data, 8, Len(trace[i].data)) % 256

\* finish packet i was acknowledged with type 0x8d
FinishAcked(i) == Answered(i) /\ trace[i + 1].data[1] = 141

\* C25 (as amended): Stc12Protocol and Stc15AProtocol send the finish
\* packet 0x69 once, after every block of the image was acknowledged and
\* as the last packet of program_flash, and the option packet is sent only
\* after its acknowledge 0x8d; Stc12AProtocol, like Stc89Protocol and
\* Stc15Protocol, sends no finish packet.
C25_FinishPacket ==
    /\ opts.protocol \notin {"stc12", "stc15a"} => FinishPackets = {}
    /\ opts.protocol \in {"stc12", "stc15a"} =>
           /\ Cardinality(FinishPackets) <= 1
           /\ \A f \in FinishPackets :
                  /\ trace[f].data
                         = <<105, 0, 0, 54, 1>> \o PackH(protocol.mcu_magic)
                  /\ \A i \in StepPackets("program") : i <= f
                  /\ \A i \in BlockPackets : BlockAcked(i)
                  /\ Cardinality(BlockPackets) * PROGRAM_BLOCKSIZE(opts.protocol)
                         = Len(bindata)
           /\ \A o \in StepPackets("options") :
                  \E f \in FinishPackets : FinishAcked(f) /\ f + 1 < o

\* C25 witness: Stc12Protocol sent four blocks, the finish packet and, after
\* its acknowledge, the option packet
C25_Witness ==
    /\ opts.protocol = "stc12"
    /\ Cardinality(BlockPackets) = 4
    /\ \E f \in FinishPackets : \E o \in StepPackets("options") :
           FinishAcked(f) /\ f + 1 < o
    /\ pc = "returned" /\ ret = 0

\* C25, a block that failed: the verification checksum was wrong, and no
\* finish packet followed
C25_BlockFailed ==
    /\ opts.protocol = "stc12"
    /\ \E i \in BlockPackets : Answered(i) /\ ~BlockAcked(i)
    /\ FinishPackets = {}
    /\ pc = "returned" /\ ret = 1

\* C25 as stated: in Stc12Protocol and Stc12AProtocol the option packet is
\* preceded by one acknowledged finish packet
C25_AsStated ==
    opts.protocol \in {"stc12", "stc12a"} =>
        \A o \in StepPackets("options") :
            /\ Cardinality(FinishPackets) = 1
            /\ \E f \in FinishPackets : FinishAcked(f) /\ f + 1 < o

\* ---- C26: disconnect ----

\* the packets disconnect wrote, and the times the port was closed
ResetPackets == StepPackets("disconnect")
Closes == {i \in DOMAIN trace : trace[i].op = "close"}

\* the bytes write_packet put on the link for the packet at trace[i]
LinkBytes(i) == write_packet(Dialect(opts.protocol), trace[i].data)

\* the number of positions of sequence s that hold byte b
CountByte(s, b) == Cardinality({k \in DOMAIN s : s[k] = b})

\* C26: disconnect writes one packet, the frame of write_packet around the
\* one byte payload 0x82 (8 bytes on the link in the 89/12A framing, 9 in
\* the framing of the later families), then closes the link: the close
\* follows the reset packet directly, nothing is read or written after it,
\* and the port is closed only by disconnect.
C26_Disconnect ==
    /\ Cardinality(ResetPackets) <= 1
    /\ \A i \in ResetPackets :
           /\ trace[i].data = <<130>>
           /\ Len(LinkBytes(i)) = 7 + CsumSize(Dialect(opts.protocol))
           /\ Slice(LinkBytes(i), 0, 3) = PACKET_START \o <<PACKET_HOST>>
           /\ LinkBytes(i)[6] = 130
           /\ LinkBytes(i)[Len(LinkBytes(i))] = PACKET_END
           /\ i + 1 = Len(trace)
           /\ trace[i + 1].op = "close"
           /\ ser.state = "closed"
    /\ \A c \in Closes : c - 1 \in ResetPackets
    /\ ser.state = "closed" => ResetPackets # {}

\* C26 witness: a programming session that ran through the final disconnect
\* of program_mcu: a 9 byte reset frame, then the close, and no read after
C26_Witness ==
    /\ pc = "returned" /\ ret = 0
    /\ opts.protocol = "stc15"
    /\ StepPackets("options") # {}
    /\ \E i \in ResetPackets :
           /\ LinkBytes(i) = <<70, 185, 106, 0, 7, 130, 0, 243, 22>>
           /\ Closes = {i + 1}
           /\ \A r \in Reads : r < i

\* C26 as stated: what disconnect puts on the link is the single byte 0x82
C26_AsStated ==
    \A i \in ResetPackets :
        /\ LinkBytes(i) = <<130>>
        /\ i + 1 = Len(trace)
        /\ trace[i + 1].op = "close"

\* the reset byte 0x82 occurs once in the frame, as its payload
C26_OneResetByte == \A i \in ResetPackets : CountByte(LinkBytes(i), 130) = 1

\* a disconnect from an except clause of run, in the 89 framing
C26_AfterError ==
    /\ pc = "returned" /\ ret = 1
    /\ opts.protocol = "stc89"
    /\ \E i \in ResetPackets :
           /\ LinkBytes(i) = <<70, 185, 106, 0, 6, 130, 242, 22>>
           /\ trace[i - 1].op = "read"

\* ---- C27: Intel HEX (ihex.py) ----

\* a Python value of type bytes or str with the code points v
PyBytes(v) == [t |-> "bytes", v |-> v]
PyStr(v) == [t |-> "str", v |-> v]

\* the outcome of a call in ihex.py: the exception, or "none" and a value
HexRaised(e) == [exc |-> e, val |-> <<>>]
HexReturned(v) == [exc |-> "none", val |-> v]

\* a + b of Python 3: bytes and str cannot be concatenated
PyAdd(a, b) ==
    IF a.t = b.t THEN [exc |-> "none", val |-> [t |-> a.t, v |-> a.v \o b.v]]
    ELSE [exc |-> "TypeError", val |-> a]

\* the digits of the hex codec; text is a sequence of one character strings
HexDigits == <<"0", "1", "2", "3", "4", "5", "6", "7",
               "8", "9", "A", "B", "C", "D", "E", "F">>
LowerDigits == <<"0", "1", "2", "3", "4", "5", "6", "7",
                 "8", "9", "a", "b", "c", "d", "e", "f">>
Whitespace == {" ", "\t", "\n", "\r"}

\* upper case hex text of a byte string: two digits per byte
HexUpper(b) ==
    [k \in 1..(2 * Len(b)) |->
        IF k % 2 = 1 THEN HexDigits[(b[(k + 1) \div 2] \div 16) + 1]
        ELSE HexDigits[(b[k \div 2] % 16) + 1]]

\* the value of hex digit c in either case, 16 for any other character
HexVal(c) ==
    IF \E d \in 1..16 : HexDigits[d] = c \/ LowerDigits[d] = c
    THEN (CHOOSE d \in 1..16 : HexDigits[d] = c \/ LowerDigits[d] = c) - 1
    ELSE 16

\* codecs.decode(text, "hex_codec"): ValueError for an odd number of digits
\* or a character that is no digit
HexDecode(text) ==
    IF Len(text) % 2 = 1 \/ \E k \in DOMAIN text : HexVal(text[k]) = 16
    THEN HexRaised("ValueError")
    ELSE HexReturned([k \in 1..(Len(text) \div 2) |->
                         HexVal(text[2 * k - 1]) * 16 + HexVal(text[2 * k])])

\* bytes.strip()
RECURSIVE Strip(_)
Strip(s) ==
    IF s = <<>> THEN s
    ELSE IF s[1] \in Whitespace THEN Strip(Tail(s))
    ELSE IF s[Len(s)] \in Whitespace THEN Strip(SubSeq(s, 1, Len(s) - 1))
    ELSE s

\* IHex.calc_checksum
calc_checksum(data) == (256 - (Sum(data) % 256)) % 256

\* IHex.parse_line: the record [exc, t, a, d] of type, address and data
parse_line(rawline) ==
    LET fail(e) == [exc |-> e, t |-> 0, a |-> 0, d |-> <<>>]
        dec == HexDecode(Slice(rawline, 1, Len(rawline)))
        line == dec.val
        dataend == line[1] + 4
    IN  IF Slice(rawline, 0, 1) # <<":">> THEN fail("ValueError")
        ELSE IF dec.exc # "none" THEN fail("ValueError")
        ELSE IF Len(line) < 4 THEN fail("struct.error")
        ELSE IF dataend >= Len(line) THEN fail("IndexError")
        ELSE IF line[dataend + 1] # calc_checksum(Slice(line, 0, dataend))
        THEN fail("ValueError")
        ELSE [exc |-> "none", t |-> line[4], a |-> line[2] * 256 + line[3],
              d |-> Slice(line, 4, dataend)]

\* IHex.get_area over the areas in insertion order: the position of the
\* first area that holds or touches addr, 0 for None
get_area(areas, addr) ==
    LET hit == {k \in DOMAIN areas :
                   /\ addr >= areas[k].addr
                   /\ addr <= areas[k].addr + Len(areas[k].data)}
    IN  IF hit = {} THEN 0 ELSE CHOOSE k \in hit : \A m \in hit : k <= m

\* IHex.insert_data
insert_data(areas, istart, idata) ==
    LET area == get_area(areas, istart)
        base == areas[area].addr
        data == areas[area].data
        iend == istart + Len(idata)
    IN  IF area = 0 THEN Append(areas, [addr |-> istart, data |-> idata])
        ELSE [areas EXCEPT ![area].data =
                 Slice(data, 0, istart - base) \o idata
                 \o Slice(data, iend - base, Len(data))]

\* IHex.extract_data() with start and end left out
RECURSIVE extract_from(_, _, _)
extract_from(areas, k, result) ==
    IF k > Len(areas) THEN result
    ELSE LET addr == areas[k].addr
             data == areas[k].data
             padded == IF Len(result) < addr
                       THEN result \o Fill(addr - Len(result), 0)
                       ELSE result
         IN  extract_from(areas, k + 1,
                 Slice(padded, 0, addr) \o data
                 \o Slice(padded, addr + Len(data), Len(padded)))

extract_data(areas) == extract_from(areas, 1, <<>>)

\* IHex.__init__; start holds the bytes of the start record, if one was set
NewIHex ==
    [areas |-> <<>>, start |-> [set |-> FALSE, v |-> <<>>], mode |-> 8,
     row_bytes |-> 16]

\* IHex.read from line k on: the outcome [exc, hex] with the object built
RECURSIVE read_from(_, _, _, _)
read_from(lines, k, segbase, ihex) ==
    LET line == Strip(lines[k])
        p == parse_line(line)
        fail(e, h) == [exc |-> e, hex |-> h]
        mode16 == [ihex EXCEPT !.mode = 16]
        mode32 == [ihex EXCEPT !.mode = 32]
    IN  IF k > Len(lines) THEN [exc |-> "none", hex |-> ihex]
        ELSE IF line = <<>> THEN read_from(lines, k + 1, segbase, ihex)
        ELSE IF p.exc # "none" THEN fail(p.exc, ihex)
        ELSE IF p.t = 0
        THEN read_from(lines, k + 1, segbase,
                 [ihex EXCEPT !.areas = insert_data(@, segbase + p.a, p.d)])
        ELSE IF p.t = 1 THEN [exc |-> "none", hex |-> ihex]
        ELSE IF p.t = 2
        THEN IF Len(p.d) < 2 THEN fail("struct.error", mode16)
             ELSE read_from(lines, k + 1, UnpackH(Slice(p.d, 0, 2)) * 16,
                            mode16)
        \* struct.unpack(">2H", d[0:2]) needs four bytes and gets two
        ELSE IF p.t = 3 THEN fail("struct.error", mode16)
        ELSE IF p.t = 4
        THEN IF Len(p.d) < 2 THEN fail("struct.error", mode32)
             ELSE read_from(lines, k + 1, UnpackH(Slice(p.d, 0, 2)) * 65536,
                            mode32)
        ELSE IF p.t = 5
        THEN IF Len(p.d) < 4 THEN fail("struct.error", mode32)
             ELSE read_from(lines, k + 1, segbase,
                      [mode32 EXCEPT !.start =
                           [set |-> TRUE, v |-> Slice(p.d, 0, 4)]])
        ELSE fail("ValueError", ihex)

\* IHex.read
read(lines) == read_from(lines, 1, 0, NewIHex)

\* IHex.make_line: struct.pack returns bytes, chr returns str, so the
\* checksum cannot be appended; bytes has no encode and str no "hex" codec
make_line(line_type, addr, data) ==
    LET head == PyBytes(<<Len(data.v)>> \o PackH(addr) \o <<line_type>>)
        body == PyAdd(head, data)
        line == PyAdd(body.val, PyStr(<<calc_checksum(body.val.v)>>))
    IN  IF Len(data.v) > 255 \/ addr > 65535 THEN HexRaised("struct.error")
        ELSE IF body.exc # "none" THEN HexRaised(body.exc)
        ELSE IF line.exc # "none" THEN HexRaised(line.exc)
        ELSE IF line.val.t = "bytes" THEN HexRaised("AttributeError")
        ELSE HexRaised("LookupError")

\* output += make_line(...): the first exception ends write
Then(output, line) ==
    IF output.exc # "none" THEN output
    ELSE IF line.exc # "none" THEN line
    ELSE HexReturned(output.val \o line.val)

\* the while loop of IHex.write over one area, from offset i on
RECURSIVE write_rows(_, _, _, _, _, _)
write_rows(ihex, start, data, i, segbase, output) ==
    LET chunk == Slice(data, i, i + ihex.row_bytes)
        addr == IF ihex.mode \in {8, 16, 32} THEN start % 65536 ELSE start
        newsegbase == IF ihex.mode = 16 THEN (start - addr) \div 16
                      ELSE IF ihex.mode = 32 THEN start \div 65536
                      ELSE segbase
        segline == IF newsegbase > 65535 THEN HexRaised("struct.error")
                   ELSE make_line(IF ihex.mode = 16 THEN 2 ELSE 4, 0,
                                  PyBytes(PackH(newsegbase)))
        withseg == IF newsegbase # segbase THEN Then(output, segline)
                   ELSE output
    IN  IF i >= Len(data) \/ output.exc # "none" THEN output
        ELSE write_rows(ihex, start + ihex.row_bytes, data,
                        i + ihex.row_bytes, newsegbase,
                        Then(withseg, make_line(0, addr, PyBytes(chunk))))

\* sorted(self.areas.items()): the positions of the areas by address
RECURSIVE SortedAreas(_)
SortedAreas(areas) ==
    IF areas = <<>> THEN <<>>
    ELSE LET k == CHOOSE k \in DOMAIN areas :
                      \A m \in DOMAIN areas : areas[k].addr <= areas[m].addr
         IN  <<areas[k]>>
             \o SortedAreas([j \in 1..(Len(areas) - 1) |->
                                IF j < k THEN areas[j] ELSE areas[j + 1]])

RECURSIVE write_areas(_, _, _, _)
write_areas(ihex, sorted, k, output) ==
    IF k > Len(sorted) \/ output.exc # "none" THEN output
    ELSE write_areas(ihex, sorted, k + 1,
             write_rows(ihex, sorted[k].addr, sorted[k].data, 0, 0, output))

\* IHex.write: the text written, or the exception raised
write(ihex) ==
    LET rows == write_areas(ihex, SortedAreas(ihex.areas), 1,
                            HexReturned(<<>>))
        startline ==
            IF ~ihex.start.set \/ ihex.mode \notin {16, 32} THEN rows
            ELSE Then(rows, make_line(IF ihex.mode = 16 THEN 3 ELSE 5, 0,
                                      PyBytes(ihex.start.v)))
    IN  Then(startline, make_line(1, 0, PyStr(<<>>)))

\* str.splitlines() of text whose lines end in "\r\n"
RECURSIVE splitlines(_, _)
splitlines(text, line) ==
    IF text = <<>> THEN IF line = <<>> THEN <<>> ELSE <<line>>
    ELSE IF Len(text) >= 2 /\ text[1] = "\r" /\ text[2] = "\n"
    THEN <<line>> \o splitlines(Tail(Tail(text)), <<>>)
    ELSE IF text[1] \in {"\r", "\n"}
    THEN <<line>> \o splitlines(Tail(text), <<>>)
    ELSE splitlines(Tail(text), Append(line, text[1]))

\* the experiment on ihex.py: the byte strings, modes and files tried
HexBytes == {0, 49, 255}
MaxHexLen == 3
HexData ==
    UNION {[1..n -> HexBytes] : n \in 0..MaxHexLen}
    \cup {<<49, 50, 51, 52, 53, 54, 55, 56>>, [k \in 1..20 |-> k]}
HexModes == {8, 16, 32}

\* the line of an Intel HEX record of type t at address a with data d
Record(t, a, d) ==
    LET body == <<Len(d)>> \o PackH(a) \o <<t>> \o d
    IN  <<":">> \o HexUpper(body \o <<calc_checksum(body)>>)

EofRecord == Record(1, 0, <<>>)

\* files that hold data d at address 0 in one row or two, as written by
\* other tools: with line ends, a blank line, or lower case digits
PlainFiles(d) ==
    {<<Record(0, 0, d), EofRecord>>,
     <<Record(0, 0, d) \o <<"\r", "\n">>, <<"\n">>, EofRecord \o <<"\n">>>>,
     <<Record(0, 0, Slice(d, 0, Len(d) \div 2)),
       Record(0, Len(d) \div 2, Slice(d, Len(d) \div 2, Len(d))),
       EofRecord>>,
     <<Record(4, 0, <<0, 0>>), Record(0, 0, d), Record(0, 0, d), EofRecord>>,
     <<<<":">> \o [k \in 1..(2 * Len(d) + 10) |->
                     LowerDigits[HexVal(Tail(Record(0, 0, d))[k]) + 1]]>>}

\* other files: data away from address 0, segment and start records, and
\* lines that IHex.read rejects
OtherFiles ==
    {<<>>,
     <<Record(0, 2, <<49>>), EofRecord>>,
     <<Record(0, 2, <<49>>), Record(0, 0, <<50, 51>>), EofRecord>>,
     <<Record(2, 0, <<0, 1>>), Record(0, 0, <<49>>), EofRecord>>,
     <<Record(0, 0, <<49>>), EofRecord, <<"x">>>>,
     <<Record(3, 0, <<0, 0, 0, 0>>), EofRecord>>,
     <<Record(5, 0, <<0, 0, 0, 0>>), Record(0, 0, <<49>>)>>,
     <<Record(5, 0, <<0, 0>>), EofRecord>>,
     <<Record(6, 0, <<>>)>>,
     <<Tail(Record(0, 0, <<49>>))>>,
     <<<<":", "a", "b", "c">>>>,
     <<<<":", "0", "0">>>>,
     <<<<":", "0", "1", "0", "0", "0", "0", "0", "0">>>>,
     <<<<":", "0", "0", "0", "0", "0", "0", "0", "1", "F", "E">>>>}

HexIdle ==
    [exp |-> "ihex", pc |-> "init", src |-> "roundtrip", mode |-> 8,
     bindata |-> <<>>, lines |-> <<>>, hex |-> NewIHex, exc |-> "none",
     decoded |-> <<>>]

\* test_roundtrip: hexer = IHex(); set_mode(mode); insert_data(0, bindata)
HexInsert ==
    /\ unit.exp = "ihex"
    /\ unit.pc = "init"
    /\ unit' = [unit EXCEPT !.pc = "inserted",
                   !.hex = [NewIHex EXCEPT !.mode = unit.mode,
                               !.areas = insert_data(<<>>, 0, unit.bindata)]]
    /\ UNCHANGED <<frame, sessionVars>>

\* test_roundtrip: encoded = hexer.write().encode("ASCII").splitlines()
HexWrite ==
    /\ unit.exp = "ihex"
    /\ unit.pc = "inserted"
    /\ LET w == write(unit.hex)
       IN  unit' = IF w.exc # "none"
                   THEN [unit EXCEPT !.pc = "raised", !.exc = w.exc]
                   ELSE [unit EXCEPT !.pc = "lines",
                            !.lines = splitlines(w.val, <<>>)]
    /\ UNCHANGED <<frame, sessionVars>>

\* IHex.read(lines)
HexRead ==
    /\ unit.exp = "ihex"
    /\ unit.pc = "lines"
    /\ LET r == read(unit.lines)
       IN  unit' = IF r.exc # "none"
                   THEN [unit EXCEPT !.pc = "raised", !.exc = r.exc,
                            !.hex = r.hex]
                   ELSE [unit EXCEPT !.pc = "read", !.hex = r.hex]
    /\ UNCHANGED <<frame, sessionVars>>

\* .extract_data()
HexExtract ==
    /\ unit.exp = "ihex"
    /\ unit.pc = "read"
    /\ unit' = [unit EXCEPT !.pc = "done",
                   !.decoded = extract_data(unit.hex.areas)]
    /\ UNCHANGED <<frame, sessionVars>>

HexNext == HexInsert \/ HexWrite \/ HexRead \/ HexExtract

\* a round trip of test_roundtrip about to start, or a file about to be read
HexInit ==
    /\ frame = FrameIdle
    /\ unit \in {[HexIdle EXCEPT !.mode = m, !.bindata = d] :
                    m \in HexModes, d \in HexData}
                \cup UNION {{[HexIdle EXCEPT !.pc = "lines", !.src = "file",
                                 !.bindata = d, !.lines = f] :
                                f \in PlainFiles(d)} : d \in HexData}
                \cup {[HexIdle EXCEPT !.pc = "lines", !.src = "other",
                          !.lines = f] : f \in OtherFiles}
    /\ SessionIdle

HexSpec == HexInit /\ [][HexNext]_vars

\* C27 as stated: for each address mode 8, 16 and 32 the round trip of
\* test_roundtrip (insert at address 0, write, read the lines back,
\* extract_data) ends, and returns the byte string that was inserted
C27_AsStated ==
    (unit.exp = "ihex" /\ unit.src = "roundtrip"
     /\ unit.pc \in {"raised", "done"})
        => unit.pc = "done" /\ unit.decoded = unit.bindata

\* IHex.write raises TypeError in every round trip, whatever the mode and
\* the data, so no line is ever produced
C27_WriteRaises ==
    (unit.exp = "ihex" /\ unit.src = "roundtrip"
     /\ unit.pc \notin {"init", "inserted"})
        => unit.pc = "raised" /\ unit.exc = "TypeError" /\ unit.lines = <<>>

\* the round trip of the test suite has failed in mode 32
C27_RoundTripRaised ==
    /\ unit.exp = "ihex" /\ unit.src = "roundtrip" /\ unit.pc = "raised"
    /\ unit.mode = 32
    /\ unit.bindata = <<49, 50, 51, 52, 53, 54, 55, 56>>
    /\ unit.hex.areas = <<[addr |-> 0, data |-> unit.bindata]>>

\* the reading half is sound: a well-formed file with data at address 0
\* is read and extract_data returns the data
C27_ReadBack ==
    (unit.exp = "ihex" /\ unit.src = "file" /\ unit.pc \in {"raised", "done"})
        => unit.pc = "done" /\ unit.decoded = unit.bindata

C27_ReadBackReached ==
    /\ unit.exp = "ihex" /\ unit.src = "file" /\ unit.pc = "done"
    /\ Len(unit.lines) = 3
    /\ unit.hex.areas = <<[addr |-> 0, data |-> [k \in 1..20 |-> k]]>>
    /\ unit.decoded = [k \in 1..20 |-> k]

\* the first line of test_simple, built by Record
C27_SimpleLine ==
    Record(0, 0, <<104, 101, 108, 108, 111, 95, 119, 111, 114, 108, 100>>)
        = <<":", "0", "B", "0", "0", "0", "0", "0", "0", "6", "8", "6", "5",
            "6", "C", "6", "C", "6", "F", "5", "F", "7", "7", "6", "F", "7",
            "2", "6", "C", "6", "4", "5", "A">>

\* ---- C28: the baud switch of the handshake ----

\* the type of the packet that makes the MCU switch, and of its answer
SwitchType(family) == IF family = "stc15" THEN 1 ELSE 142
SwitchAckType(family) ==
    CASE family \in {"stc89", "stc12a"} -> 142
      [] family \in {"stc12", "stc15a"} -> 132
      [] OTHER                           -> 1

\* the switch packets sent, and the position of the read that answers
\* packet i (0 when none was started)
SwitchPackets ==
    {i \in StepPackets("handshake") :
        trace[i].data[1] = SwitchType(opts.protocol)}
ReadOf(i) ==
    IF \E k \in Reads : k > i /\ \A p \in Packets : ~(i < p /\ p < k)
    THEN CHOOSE k \in Reads : k > i /\ \A m \in Reads : m > i => k <= m
    ELSE 0

\* the link was set to baud between trace positions i and k
SetBetween(i, k, baud) ==
    \E b \in (i + 1)..(k - 1) :
        trace[b].op = "baudrate" /\ trace[b].baud = baud

\* C28 (as amended): every handshake packet up to and including the switch
\* packet is sent at the handshake baud. In the 89, 12A, 12 and 15A classes
\* the link is set to the transfer baud after the switch packet and before
\* its answer is read; Stc15Protocol reads the answer (type 0x01) at the
\* handshake baud and sets the transfer baud only after it was accepted.
\* The handshake packets after the switch, and every erase, program and
\* option packet and read, are at the transfer baud.
C28_BaudSwitch ==
    /\ Cardinality(SwitchPackets) <= 1
    /\ \A s \in SwitchPackets :
           /\ \A p \in StepPackets("handshake") :
                  trace[p].baud = IF p <= s THEN BaudHandshake
                                  ELSE BaudTransfer
           /\ ReadOf(s) # 0 =>
                  IF opts.protocol = "stc15"
                  THEN /\ ReadOf(s) = s + 1
                       /\ trace[s + 1].baud = BaudHandshake
                       /\ (trace[s + 1].res = "ok"
                           /\ trace[s + 1].data # <<>>
                           /\ trace[s + 1].data[1] = 1)
                              => /\ Len(trace) >= s + 2
                                 /\ trace[s + 2].op = "baudrate"
                                 /\ trace[s + 2].baud = BaudTransfer
                  ELSE /\ ReadOf(s) = s + 2
                       /\ SetBetween(s, s + 2, BaudTransfer)
                       /\ trace[s + 2].baud = BaudTransfer
    /\ StepPackets("handshake") # {} /\ SwitchPackets = {} =>
           \A p \in StepPackets("handshake") : trace[p].baud = BaudHandshake
    /\ \A i \in DOMAIN trace :
           (trace[i].step \in {"erase", "program", "options"}
            /\ trace[i].op \in {"packet", "read"})
               => /\ trace[i].baud = BaudTransfer
                  /\ \E s \in SwitchPackets :
                         /\ s < i
                         /\ trace[ReadOf(s)].res = "ok"
                         /\ trace[ReadOf(s)].data[1]
                                = SwitchAckType(opts.protocol)

\* C28 witness: a 15 session that returned 0: the answer to the switch
\* packet was read at the handshake baud, the option packet went out at
\* the transfer baud
C28_Witness ==
    /\ pc = "returned" /\ ret = 0
    /\ opts.protocol = "stc15"
    /\ \E s \in SwitchPackets :
           /\ trace[s + 1].op = "read" /\ trace[s + 1].baud = BaudHandshake
           /\ trace[s + 2].op = "baudrate"
           /\ \E o \in StepPackets("options") :
                  o > s /\ trace[o].baud = BaudTransfer

\* the same in the 12 class: the answer was read at the transfer baud
C28_Witness12 ==
    /\ pc = "returned" /\ ret = 0
    /\ opts.protocol = "stc12"
    /\ \E s \in SwitchPackets :
           /\ trace[s + 1].op = "baudrate"
           /\ trace[s + 2].op = "read" /\ trace[s + 2].baud = BaudTransfer
           /\ StepPackets("options") # {}

\* C28 as stated: in every class the answer to the switch packet is read
\* only after the link was set to the transfer baud
C28_AsStated ==
    \A s \in SwitchPackets :
        ReadOf(s) # 0 =>
            /\ SetBetween(s, ReadOf(s), BaudTransfer)
            /\ trace[ReadOf(s)].baud = BaudTransfer

\* ---- C29: the ping-pong test of the handshake ----

\* the packets of the ping-pong test (type 0x80), and the packet with which
\* Stc12Protocol.handshake starts (type 0x50)
PingPackets == {i \in StepPackets("handshake") : trace[i].data[1] = 128}
StartPackets == {i \in StepPackets("handshake") : trace[i].data[1] = 80}

\* packet i was answered with a payload of the given type
AckedWith(i, type) ==
    /\ Answered(i)
    /\ trace[i + 1].data # <<>>
    /\ trace[i + 1].data[1] = type

\* the switch packet was answered with the type its class expects
SwitchAcked ==
    \E s \in SwitchPackets :
        /\ ReadOf(s) # 0
        /\ trace[ReadOf(s)].res = "ok"
        /\ trace[ReadOf(s)].data # <<>>
        /\ trace[ReadOf(s)].data[1] = SwitchAckType(opts.protocol)

\* C29 (as amended): Stc89Protocol and Stc12AProtocol run the ping-pong
\* test after the switch packet was acknowledged: at most four packets
\* 80 00 00 36 01 + magic at the transfer baud, each sent only after the
\* one before was answered with type 0x80, and erase starts only after
\* four of them were answered so. Stc12Protocol has no ping-pong test: it
\* sends one packet of type 0x50 at the handshake baud as the first packet
\* of the handshake, and erase follows the acknowledged switch directly.
C29_PingPong ==
    /\ opts.protocol \in {"stc89", "stc12a"} =>
           /\ Cardinality(PingPackets) <= 4
           /\ StartPackets = {}
           /\ \A i \in PingPackets :
                  /\ trace[i].data = <<128, 0, 0, 54, 1>>
                                     \o PackH(protocol.mcu_magic)
                  /\ trace[i].baud = BaudTransfer
                  /\ SwitchAcked
                  /\ \A s \in SwitchPackets : s < i
                  /\ \A j \in PingPackets : j < i => AckedWith(j, 128)
           /\ StepPackets("erase") # {} =>
                  /\ Cardinality(PingPackets) = 4
                  /\ \A i \in PingPackets : AckedWith(i, 128)
    /\ opts.protocol \notin {"stc89", "stc12a"} => PingPackets = {}
    /\ opts.protocol = "stc12" =>
           /\ Cardinality(StartPackets) <= 1
           /\ \A i \in StartPackets :
                  /\ trace[i].baud = BaudHandshake
                  /\ \A p \in StepPackets("handshake") : i <= p
           /\ \A e \in StepPackets("erase") :
                  \E s \in SwitchPackets : ReadOf(s) + 1 = e

\* C29 witness: a 12A session that returned 0 after four answered turns
C29_Witness ==
    /\ pc = "returned" /\ ret = 0
    /\ opts.protocol = "stc12a"
    /\ Cardinality(PingPackets) = 4
    /\ \A i \in PingPackets : AckedWith(i, 128) /\ trace[i].baud = BaudTransfer
    /\ StepPackets("options") # {}

\* a 12 session that returned 0 with no ping-pong packet
C29_Witness12 ==
    /\ pc = "returned" /\ ret = 0
    /\ opts.protocol = "stc12"
    /\ PingPackets = {}
    /\ Cardinality(StartPackets) = 1
    /\ StepPackets("options") # {}

\* a turn of the ping-pong test answered with a wrong type ended the
\* handshake with exit code 1
C29_WrongType ==
    /\ pc = "returned" /\ ret = 1
    /\ opts.protocol = "stc12a"
    /\ \E i \in PingPackets :
           /\ Answered(i)
           /\ trace[i + 1].data # <<>>
           /\ trace[i + 1].data[1] # 128
           /\ \A j \in PingPackets : j <= i
    /\ StepPackets("erase") = {}

\* C29 as stated: in the 12 and 12A classes erase starts only after four
\* ping-pong turns at the transfer baud
C29_AsStated ==
    (opts.protocol \in {"stc12", "stc12a"} /\ StepPackets("erase") # {})
        => /\ Cardinality(PingPackets) = 4
           /\ \A i \in PingPackets :
                  AckedWith(i, 128) /\ trace[i].baud = BaudTransfer

\* ---- C30: the trim selected in the second round ----

Dist(count, target) ==
    IF count < target THEN target - count ELSE count - target

\* Stc15AProtocol: the packet of the second trim round (eleven trials), the
\* trims it challenges, and the pairs of trim and count in its answer
Trim2Packets ==
    {i \in StepPackets("handshake") :
        trace[i].data[1] = 101 /\ Len(trace[i].data) = 56}
ChallengeTrims(i) ==
    {UnpackH(Slice(trace[i].data, 12 + 4 * k, 14 + 4 * k)) : k \in 0..10}
AnswerPairs(r) == {TrimPair(r, 12 + 4 * k) : k \in 0..10}

\* the MCU reported in every trial the trim it was sent
Echoed(i, r) ==
    \A k \in 0..10 :
        TrimPair(r, 12 + 4 * k).trim
            = UnpackH(Slice(trace[i].data, 12 + 4 * k, 14 + 4 * k))

\* the trim Stc15AProtocol.handshake stored in the options, and the answer
\* to the first trim round
StoredTrim == UnpackH(Slice(protocol.options, 3, 5))
Trim1Read ==
    CHOOSE k \in Reads :
        /\ trace[k].step = "handshake" /\ trace[k].res = "ok"
        /\ trace[k].data # <<>> /\ trace[k].data[1] = 101
        /\ \A j \in Reads : (trace[j].step = "handshake" /\ trace[j].res = "ok"
                             /\ trace[j].data # <<>>
                             /\ trace[j].data[1] = 101) => k <= j

\* Stc15Protocol: the packets of the calibration rounds; the second one
\* carries the challenges of round 2
CalibPackets == {i \in StepPackets("handshake") : trace[i].data[1] = 0}
Calib2Sent == CHOOSE i \in CalibPackets : \A j \in CalibPackets : j <= i
ChallengeAt(i, k) == Slice(trace[i].data, 2 + 2 * k, 4 + 2 * k)
CountAt(r, k) == UnpackH(Slice(r, 2 + 2 * k, 4 + 2 * k))

\* challenge k of packet i is the value chosen for target: no answered
\* count is nearer to the target than its count
Nearest(i, r, k, target) ==
    \A j \in 0..(r[2] - 1) :
        Dist(CountAt(r, k), target) <= Dist(CountAt(r, j), target)

\* C30 (as amended): Stc15Protocol stores as user trim a challenge of its
\* round-2 packet whose answered count is nearest to the user target among
\* the counts answered, and sends in the switch packet a challenge chosen
\* the same way for the programming target. Stc15AProtocol stores the trim
\* field of an entry of the round-2 answer whose count is nearest to the
\* user count, which is one of its challenges when the MCU reported the
\* trims it was sent, and stores 0 when no count is nearer to the user
\* count than 65535 is; its programming trim is interpolated from the
\* answer to round 1 and sent in the switch packet.
C30_TrimChoice ==
    /\ (opts.protocol = "stc15" /\ ~protocol.external_clock
        /\ SwitchPackets # {}) =>
           LET q == Calib2Sent
               r == trace[ReadOf(q)].data
           IN  /\ Cardinality(CalibPackets) = 2
               /\ \E k \in 0..(r[2] - 1) :
                      /\ protocol.trim_value = ChallengeAt(q, k)
                      /\ Nearest(q, r, k, TargetCount(UserSpeed))
               /\ \A s \in SwitchPackets :
                      \E k \in 0..(r[2] - 1) :
                          /\ Slice(trace[s].data, 1, 3) = ChallengeAt(q, k)
                          /\ Nearest(q, r, k,
                                     TargetCount(Frac(22118400, 1)))
    /\ (opts.protocol = "stc15a" /\ TrimReads # {}) =>
           \A q \in Trim2Packets :
               LET r  == trace[ReadOf(q)].data
                   uc == TrimCount(UserSpeed)
                   near == {p \in AnswerPairs(r) :
                               Dist(p.count, uc) < Dist(65535, uc)}
               IN  /\ near = {} => StoredTrim = 0
                   /\ near # {} =>
                          \E p \in near :
                              /\ StoredTrim = p.trim
                              /\ \A o \in AnswerPairs(r) :
                                     Dist(p.count, uc) <= Dist(o.count, uc)
                   /\ (near # {} /\ Echoed(q, r)) =>
                          StoredTrim \in ChallengeTrims(q)
                   /\ \A s \in SwitchPackets :
                          Slice(trace[s].data, 1, 3)
                              = PackH(Interpolate(
                                    TrimPair(trace[Trim1Read].data, 28),
                                    TrimPair(trace[Trim1Read].data, 32),
                                    TrimCount(Frac(22118400, 1))))

\* C30 witness: a 15A session that returned 0 with a challenged trim of
\* round 2 in its options
C30_Witness ==
    /\ pc = "returned" /\ ret = 0
    /\ opts.protocol = "stc15a"
    /\ StepPackets("options") # {}
    /\ \E q \in Trim2Packets :
           /\ Echoed(q, trace[ReadOf(q)].data)
           /\ StoredTrim \in ChallengeTrims(q)
           /\ StoredTrim # 0

\* the same on 15: the user trim is a challenge of round 2
C30_Witness15 ==
    /\ pc = "returned" /\ ret = 0
    /\ opts.protocol = "stc15" /\ ~protocol.external_clock
    /\ StepPackets("options") # {}
    /\ \E k \in 0..11 : protocol.trim_value = ChallengeAt(Calib2Sent, k)

\* C30 as stated: the trim selected for the user frequency is one of the
\* trims challenged in round 2, and no answered count is nearer to the
\* user count than its count
C30_AsStated ==
    (opts.protocol = "stc15a" /\ TrimReads # {}) =>
        \A q \in Trim2Packets :
            /\ StoredTrim \in ChallengeTrims(q)
            /\ \E p \in AnswerPairs(trace[ReadOf(q)].data) :
                   /\ p.trim = StoredTrim
                   /\ \A o \in AnswerPairs(trace[ReadOf(q)].data) :
                          Dist(p.count, TrimCount(UserSpeed))
                              <= Dist(o.count, TrimCount(UserSpeed))

\* a 15A session programmed trim 0, which was not challenged
C30_ZeroTrim ==
    /\ pc = "returned" /\ ret = 0
    /\ opts.protocol = "stc15a"
    /\ StepPackets("options") # {}
    /\ StoredTrim = 0
    /\ \E q \in Trim2Packets : 0 \notin ChallengeTrims(q)

\* ---- C31: the estimate of the first calibration round ----

\* the experiment on choose_range: the counts an MCU answers for the first
\* four challenges of Calib1Packet, and the targets
RangeCounts == {9000, 9216, 9400}
RangeTargets == {9216, 9300}
RangeResponse(c) ==
    <<0, 12>> \o PackH(c[1]) \o PackH(c[2]) \o PackH(c[3]) \o PackH(c[4])
              \o PackH(20000) \o PackH(21000) \o PackH(22000) \o PackH(23000)
              \o PackH(24000) \o PackH(25000) \o PackH(26000) \o PackH(27000)

RangeIdle ==
    [exp |-> "range", pc |-> "init", response |-> <<>>, target |-> 0,
     out |-> [kind |-> "none", trim |-> NoTrim]]

\* choose_range(packet, response, target_count) on the round-1 packet
RangeChoose ==
    /\ unit.exp = "range"
    /\ unit.pc = "init"
    /\ unit' = [unit EXCEPT !.pc = "done",
                   !.out = choose_range(Calib1Packet, unit.response,
                                        unit.target)]
    /\ UNCHANGED <<frame, sessionVars>>

RangeNext == RangeChoose

RangeInit ==
    /\ frame = FrameIdle
    /\ unit \in {[RangeIdle EXCEPT !.response = RangeResponse(c),
                                   !.target = t] :
                    c \in [1..4 -> RangeCounts], t \in RangeTargets}
    /\ SessionIdle

RangeSpec == RangeInit /\ [][RangeNext]_vars

\* the counts and the challenged trims of pair i of a round-1 exchange
PairCounts(response, i) ==
    <<UnpackH(Slice(response, 2 + 2 * i, 4 + 2 * i)),
      UnpackH(Slice(response, 4 + 2 * i, 6 + 2 * i))>>
PairTrims(i) == <<Calib1Packet[3 + 2 * i], Calib1Packet[5 + 2 * i]>>

\* pair i of the response brackets the target
Brackets(response, i, target) ==
    LET c == PairCounts(response, i)
    IN  \/ c[1] <= target /\ c[2] >= target
        \/ c[2] <= target /\ c[1] >= target

\* x lies between a and b inclusive, whichever is larger
Between2(x, a, b) == (a <= x /\ x <= b) \/ (b <= x /\ x <= a)

\* C31 as stated: whenever some adjacent pair of the round-1 response
\* brackets the target, choose_range returns a trim, equal counts included,
\* and the trim lies between the two trims of a bracketing pair
C31_AsStated ==
    (unit.exp = "range" /\ unit.pc = "done"
     /\ \E i \in 0..10 : Brackets(unit.response, i, unit.target))
        => /\ unit.out.kind = "found"
           /\ \E i \in 0..10 :
                  /\ Brackets(unit.response, i, unit.target)
                  /\ Between2(unit.out.trim[1], PairTrims(i)[1],
                              PairTrims(i)[2])

\* what choose_range does: it looks at the first bracketing pair only; with
\* different counts it returns a trim between the two trims of that pair
\* and the range of its second challenge, with equal counts it raises
\* ZeroDivisionError; with no bracketing pair it returns None
C31_FirstPair ==
    (unit.exp = "range" /\ unit.pc = "done") =>
        LET hits == {i \in 0..10 : Brackets(unit.response, i, unit.target)}
            f == CHOOSE i \in hits : \A j \in hits : i <= j
            c == PairCounts(unit.response, f)
        IN  IF hits = {} THEN unit.out.kind = "none"
            ELSE IF c[1] = c[2] THEN unit.out.kind = "ZeroDivisionError"
            ELSE /\ unit.out.kind = "found"
                 /\ Between2(unit.out.trim[1], PairTrims(f)[1], PairTrims(f)[2])
                 /\ unit.out.trim[2] = Calib1Packet[6 + 2 * f]

\* a bracketing pair with equal counts made choose_range raise
C31_Raised ==
    /\ unit.exp = "range" /\ unit.pc = "done"
    /\ unit.target = 9216
    /\ PairCounts(unit.response, 0) = <<9216, 9216>>
    /\ unit.out.kind = "ZeroDivisionError"

\* an estimate strictly inside the two trims was returned
C31_Inside ==
    /\ unit.exp = "range" /\ unit.pc = "done"
    /\ unit.out.kind = "found"
    /\ unit.out.trim[1] \notin {PairTrims(0)[1], PairTrims(0)[2]}
    /\ PairCounts(unit.response, 0) = <<9000, 9400>>

\* ---- C32: the 15 handshake on an external clock ----

\* the status packet says external clock: bit 0 of packet[7] is clear
ExternalStatus ==
    /\ opts.protocol = "stc15"
    /\ Len(status_packet) >= 22
    /\ status_packet[8] % 2 = 0

\* int(65535 - clk / baud_transfer / 4) for the clock the status packet
\* counts, clk = baud_handshake * packet[13:15]
ExtDivisor ==
    LET clk == BaudHandshake * UnpackH(Slice(status_packet, 13, 15))
        d   == 4 * BaudTransfer
    IN  65535 - ((clk + d - 1) \div d)

\* the key bytes a BSL from 7.2 on expects in a packet
KeyLen == IF status_packet[18] >= 114 THEN 2 ELSE 0

\* C32: with an external clock signalled by the status packet the handshake
\* of Stc15Protocol sends no calibration packet (type 0x00) but one switch
\* packet 01, packet[4], 40, divisor, 00 00 83 with the divisor
\* int(65535 - clk/baud/4); once it is acknowledged the trim pair
\* (packet[4], 0x40) and the trim frequency 24000000 are recorded, and the
\* option packet of program_options carries them: the frequency in its four
\* frequency bytes and the pair as packet[4], 0x40 + 0x3f.
C32_ExternalClock ==
    (ExternalStatus /\ StepPackets("handshake") # {}) =>
        /\ protocol.external_clock
        /\ CalibPackets = {}
        /\ Cardinality(SwitchPackets) = 1
        /\ \A s \in SwitchPackets :
               /\ trace[s].data = <<1, status_packet[5], 64>>
                                  \o PackH(ExtDivisor) \o <<0, 0, 131>>
               /\ \A p \in StepPackets("handshake") : s <= p
        /\ SwitchAcked =>
               /\ protocol.trim_value = <<status_packet[5], 64>>
               /\ protocol.trim_frequency = 24000000
        /\ \A o \in StepPackets("options") :
               /\ SwitchAcked
               /\ Slice(trace[o].data, 26 + KeyLen, 34 + KeyLen)
                      = <<1, 255, 110, 255, 54, 255, 0, 255>>
               /\ Slice(trace[o].data, 62 + KeyLen, 64 + KeyLen)
                      = <<status_packet[5], 64 + 63>>

\* C32 witness: a session on an external clock that returned 0 after the
\* option packet with the factory trim was sent
C32_Witness ==
    /\ ExternalStatus
    /\ pc = "returned" /\ ret = 0
    /\ \E o \in StepPackets("options") :
           Slice(trace[o].data, 62 + KeyLen, 64 + KeyLen) = <<88, 127>>
    /\ \E s \in SwitchPackets : Slice(trace[s].data, 3, 5) = PackH(65391)
    /\ CalibPackets = {}

\* on the internal oscillator the calibration packets are sent
C32_Internal ==
    /\ opts.protocol = "stc15" /\ ~ExternalStatus
    /\ pc = "returned" /\ ret = 0
    /\ Cardinality(CalibPackets) = 2

\* ---- C33: the erase packet ----

ErasePackets == StepPackets("erase")

\* packet d ends in the bytes 0x80, 0x7f, ... down to last, which start
\* after the first head bytes
CountdownTail(d, head, last) ==
    /\ Len(d) = head + (128 - last + 1)
    /\ d[head + 1] = 128
    /\ \A k \in (head + 1)..(Len(d) - 1) : d[k + 1] = d[k] - 1
    /\ d[Len(d)] = last

\* C33 (as amended): the erase packet of the 12A, 12 and 15A classes is the
\* header 84 ff 00 blks 00 00 size and twelve zero bytes, followed by the
\* bytes 0x80 down to ERASE_COUNTDOWN + 1 (0x0e on 12A and 12, 0x5f on
\* 15A) and nothing else; the erase packet of the 89 class has no such
\* tail: it is 84 blks 33 33 33 33 33 33.
C33_ErasePacket ==
    \A e \in ErasePackets :
        LET d == trace[e].data
        IN  /\ opts.protocol = "stc89" =>
                /\ Len(d) = 8
                /\ d[1] = 132
                /\ d[2] = ((Len(bindata) + 511) \div 512) * 2
                /\ Slice(d, 2, 8) = <<51, 51, 51, 51, 51, 51>>
            /\ opts.protocol \in {"stc12a", "stc12", "stc15a"} =>
                /\ Slice(d, 0, 3) = <<132, 255, 0>>
                /\ Slice(d, 4, 6) = <<0, 0>>
                /\ Slice(d, 7, 19) = <<0, 0, 0, 0, 0, 0, 0, 0, 0, 0, 0, 0>>
                /\ CountdownTail(d, 19,
                       IF opts.protocol = "stc15a" THEN 95 ELSE 14)

\* C33 witness: a 15A session whose erase packet ends in 0x60, 0x5f was
\* acknowledged and the session returned 0
C33_Witness ==
    /\ pc = "returned" /\ ret = 0
    /\ opts.protocol = "stc15a"
    /\ \E e \in ErasePackets :
           /\ Len(trace[e].data) = 53
           /\ Slice(trace[e].data, 51, 53) = <<96, 95>>
           /\ Answered(e)

\* the same on 12: the tail ends in 0x0f, 0x0e
C33_Witness12 ==
    /\ pc = "returned" /\ ret = 0
    /\ opts.protocol = "stc12"
    /\ \E e \in ErasePackets :
           /\ Len(trace[e].data) = 134
           /\ Slice(trace[e].data, 132, 134) = <<15, 14>>

\* C33 as stated: the erase packet of the 89 class, too, ends in a tail
\* that counts down from 0x80
C33_AsStated ==
    \A e \in ErasePackets :
        opts.protocol \in {"stc89", "stc12a", "stc12", "stc15a"} =>
            \E head \in 0..(Len(trace[e].data) - 1), last \in 1..128 :
                CountdownTail(trace[e].data, head, last)

-----------------------------------------------------------------------------
(* The UID: Stc12Protocol.erase_flash, Stc12Protocol.program_options,     *)
(* Stc15AProtocol.program_options, Stc15Protocol.program_options          *)

\* the families whose program_options prints "Target UID"
UidFamilies == {"stc12", "stc15a", "stc15"}

\* the accepted acknowledges of the erase packet
EraseAcks ==
    {k \in Reads : /\ k - 1 \in StepPackets("erase")
                   /\ trace[k].res = "ok"
                   /\ Len(trace[k].data) >= 1
                   /\ trace[k].data[1] = (IF opts.protocol = "stc15" THEN 3 ELSE 0)}

\* the acknowledges of the option packet that program_options accepts
OptionAcks ==
    {k \in Reads : /\ k - 1 \in StepPackets("options")
                   /\ trace[k].res = "ok"
                   /\ Len(trace[k].data) >= 1
                   /\ IF opts.protocol = "stc15"
                      THEN /\ Len(trace[k].data) >= 2
                           /\ trace[k].data[1] = 4
                           /\ trace[k].data[2] = 84
                      ELSE trace[k].data[1] = 80}

\* C34 as stated: in every family that prints the UID, once the option
\* acknowledge was accepted the session has a UID and printing it does not
\* fail
C34_AsStated ==
    (opts.protocol \in UidFamilies /\ OptionAcks # {})
        => (protocol.uid.set /\ exc # "TypeError")

\* C34, the erase half: a UID that came with the erase acknowledge (a payload
\* of at least 8 bytes) is the 7 bytes after the type byte, and it stays the
\* UID of the session whatever the option acknowledge carries
C34_EraseUid ==
    \A k \in EraseAcks :
        (opts.protocol \in UidFamilies /\ Len(trace[k].data) >= 8)
            => protocol.uid = [set |-> TRUE, val |-> Slice(trace[k].data, 1, 8)]

\* an erase acknowledge with a UID was followed by an option acknowledge that
\* carries a UID as well
C34_EraseUidReached ==
    /\ opts.protocol = "stc12"
    /\ \E k \in EraseAcks : Len(trace[k].data) >= 8
    /\ \E k \in OptionAcks : Len(trace[k].data) >= 25
    /\ ret = 0

\* C34, the option half on the 12 protocol: without a UID in the erase
\* acknowledge the UID is response[18:25] of the option acknowledge
C34_OptionUid ==
    \A k \in OptionAcks :
        (opts.protocol = "stc12" /\ \A e \in EraseAcks : Len(trace[e].data) < 8)
            => protocol.uid = [set |-> TRUE, val |-> Slice(trace[k].data, 18, 25)]

\* the 12 protocol took the UID from the option acknowledge
C34_OptionUidReached ==
    /\ opts.protocol = "stc12"
    /\ \E e \in EraseAcks : Len(trace[e].data) < 8
    /\ \E k \in OptionAcks : Len(trace[k].data) >= 25
    /\ protocol.uid.val = TestUid

\* a 15A or 15 session whose erase acknowledge has no UID fails with
\* TypeError when program_options prints the UID
C34_PrintRaised ==
    /\ opts.protocol \in {"stc15a", "stc15"}
    /\ OptionAcks # {}
    /\ ~protocol.uid.set
    /\ exc = "TypeError"

-----------------------------------------------------------------------------
(* The blocks of program_flash *)

\* the number of write packets of program_flash sent before packet i
BlockIndex(i) == Cardinality({j \in BlockPackets : j < i})

\* the address field of write packet i: packet[3:5] of the 89 and 12
\* protocols, packet[1:3] of Stc15Protocol
BlockAddr(i) == UnpackH(BlockAddress(trace[i].data))

\* the image bytes of write packet i: data[i:i+PROGRAM_BLOCKSIZE] after the
\* length field, or after the address and the key of Stc15Protocol
BlockBytes(i) ==
    IF opts.protocol = "stc15"
    THEN Slice(trace[i].data, 3 + KeyLen, Len(trace[i].data))
    ELSE Slice(trace[i].data, 7, Len(trace[i].data))

\* write packet i was answered, and program_flash accepted the answer
BlockAccepted(i) ==
    /\ Answered(i)
    /\ Len(trace[i + 1].data) >= 2
    /\ IF opts.protocol = "stc15"
       THEN trace[i + 1].data[1] = 2 /\ trace[i + 1].data[2] = 84
       ELSE /\ trace[i + 1].data[1]
                   = (IF opts.protocol \in {"stc89", "stc12a"} THEN 128 ELSE 0)
            /\ trace[i + 1].data[2] = SumRange(BlockBytes(i), 1, Len(BlockBytes(i))) % 256

\* program_flash returned or reached its finish packet: a later packet of
\* program_mcu is in the trace
BlocksDone ==
    \/ FinishPackets # {}
    \/ StepPackets("options") # {}

\* C35: the write packets of program_flash carry the addresses 0, B, 2B, ...
\* in the order they are sent, with B = PROGRAM_BLOCKSIZE (128 for 89, 12A
\* and 12, 64 for 15A and 15); each carries exactly the image bytes
\* [addr, addr + B); a packet is sent only after the one before it was
\* acknowledged and the acknowledge accepted; and once program_flash is
\* through there are len(image) / B of them, one for every block of the image.
C35_ProgramBlocks ==
    LET B == PROGRAM_BLOCKSIZE(opts.protocol)
    IN  /\ B = (IF opts.protocol \in {"stc15a", "stc15"} THEN 64 ELSE 128)
        /\ \A i \in BlockPackets :
               /\ BlockAddr(i) = BlockIndex(i) * B
               /\ BlockBytes(i) = Slice(bindata, BlockAddr(i), BlockAddr(i) + B)
               /\ Len(BlockBytes(i)) = B
               /\ \A j \in BlockPackets :
                      j < i => /\ BlockAddr(j) < BlockAddr(i)
                               /\ BlockAccepted(j)
                               /\ j + 1 < i
        /\ BlocksDone =>
               /\ Cardinality(BlockPackets) * B = Len(bindata)
               /\ \A k \in 0..(Len(bindata) \div B - 1) :
                      Cardinality({i \in BlockPackets : BlockAddr(i) = k * B}) = 1

\* C35 witness: a session of Stc15Protocol sent all eight blocks of a
\* 512 byte image and went on to the option packet
C35_Witness ==
    /\ opts.protocol = "stc15"
    /\ Cardinality(BlockPackets) = 8
    /\ \A i \in BlockPackets : BlockAccepted(i)
    /\ StepPackets("options") # {}

\* the four blocks of the 89 protocol were sent and accepted
C35_Witness89 ==
    /\ opts.protocol = "stc89"
    /\ Cardinality(BlockPackets) = 4
    /\ \A i \in BlockPackets : BlockAccepted(i)
    /\ StepPackets("options") # {}

-----------------------------------------------------------------------------
(* The acknowledge of a block of program_flash *)

\* "csum = sum(packet[7:]) & 0xff": the 8-bit sum of the data bytes of write
\* packet i
BlockSum(i) == SumRange(BlockBytes(i), 1, Len(BlockBytes(i))) % 256

\* the type byte program_flash wants in the acknowledge of a block
BlockAckType(family) ==
    CASE family \in {"stc89", "stc12a"} -> 128
      [] family \in {"stc12", "stc15a"} -> 0
      [] OTHER                          -> 2

\* write packet i was answered with the right type byte and a second byte
TypedAck(i) ==
    /\ Answered(i)
    /\ Len(trace[i + 1].data) >= 2
    /\ trace[i + 1].data[1] = BlockAckType(opts.protocol)

\* after write packet i program_mcu went on: another block, the finish
\* packet or the option packet
WentOn(i) ==
    \E j \in Packets : j > i /\ trace[j].step \in {"program", "options"}

\* the session ended after write packet i with exit code 1, and the only
\* packet after it is the reset of disconnect
EndedAt(i) ==
    /\ ~WentOn(i)
    /\ pc = "returned" => ret = 1

\* C36 as stated: in every family an acknowledge of a block is accepted only
\* if its second byte is the 8-bit sum of the block's data bytes, and one
\* with another second byte ends the session
C36_AsStated ==
    \A i \in BlockPackets :
        /\ WentOn(i) => (TypedAck(i) /\ trace[i + 1].data[2] = BlockSum(i))
        /\ (TypedAck(i) /\ trace[i + 1].data[2] # BlockSum(i)) => EndedAt(i)

\* C36 (as amended): on 89, 12A, 12 and 15A the acknowledge of a block is
\* accepted only if it echoes the 8-bit sum of the block's data bytes, and a
\* different checksum ends the session with exit code 1 with no further
\* block, finish or option packet; Stc15Protocol computes no checksum and
\* accepts exactly the acknowledge 02 54, so an echoed checksum other than
\* 0x54 ends the session in the same way.
C36_BlockAck ==
    \A i \in BlockPackets :
        LET want == IF opts.protocol = "stc15" THEN 84 ELSE BlockSum(i)
        IN  /\ WentOn(i) => (TypedAck(i) /\ trace[i + 1].data[2] = want)
            /\ (TypedAck(i) /\ trace[i + 1].data[2] # want) => EndedAt(i)

\* C36 witness: a block of the 12 protocol was acknowledged with a wrong
\* checksum and run returned 1 after the reset packet
C36_Witness ==
    /\ opts.protocol = "stc12"
    /\ \E i \in BlockPackets :
           /\ TypedAck(i)
           /\ trace[i + 1].data[2] # BlockSum(i)
           /\ ~WentOn(i)
    /\ pc = "returned"
    /\ ret = 1
    /\ EndsWithDisconnect

\* a block of Stc15Protocol was acknowledged with its checksum instead of
\* 0x54 and run returned 1
C36_Witness15 ==
    /\ opts.protocol = "stc15"
    /\ \E i \in BlockPackets :
           /\ TypedAck(i)
           /\ trace[i + 1].data[2] = BlockSum(i)
           /\ BlockSum(i) # 84
           /\ ~WentOn(i)
    /\ pc = "returned"
    /\ ret = 1

\* a block of Stc15Protocol was accepted although the acknowledge does not
\* carry its checksum
C36_NoEcho ==
    /\ opts.protocol = "stc15"
    /\ \E i \in BlockPackets :
           WentOn(i) /\ trace[i + 1].data[2] # BlockSum(i)

-----------------------------------------------------------------------------
(* Stc15Protocol: the command byte of the write packets and the key of     *)
(* BSL 7.2                                                                  *)

\* "self.bsl_version >= 0x72", with bsl_version = status_packet[17]
KeyWanted == Len(status_packet) >= 18 /\ status_packet[18] >= 114

\* C37: on the 15 protocol the first write packet of program_flash has the
\* command byte 0x22 and every later one 0x02; with a BSL version of 0x72 or
\* more the erase packet is 03 00 00 5a a5, every write packet has 5a a5
\* between its address and its data, and the option packet has 5a a5 after
\* 04 00 00; with an older BSL the erase packet is 03 00, the data of a write
\* packet follow its address directly, and the 0xff filling of the option
\* packet follows 04 00 00 directly.
C37_Stc15Packets ==
    opts.protocol = "stc15" =>
        LET B == PROGRAM_BLOCKSIZE("stc15")
        IN  /\ \A i \in BlockPackets :
                   /\ trace[i].data[1] = (IF BlockIndex(i) = 0 THEN 34 ELSE 2)
                   /\ IF KeyWanted
                      THEN /\ Len(trace[i].data) = B + 5
                           /\ Slice(trace[i].data, 3, 5) = <<90, 165>>
                           /\ Slice(trace[i].data, 5, B + 5)
                                  = Slice(bindata, BlockAddr(i), BlockAddr(i) + B)
                      ELSE /\ Len(trace[i].data) = B + 3
                           /\ Slice(trace[i].data, 3, B + 3)
                                  = Slice(bindata, BlockAddr(i), BlockAddr(i) + B)
            /\ \A i \in StepPackets("erase") :
                   trace[i].data = (IF KeyWanted THEN <<3, 0, 0, 90, 165>>
                                    ELSE <<3, 0>>)
            /\ \A i \in StepPackets("options") :
                   /\ Slice(trace[i].data, 0, 3) = <<4, 0, 0>>
                   /\ IF KeyWanted
                      THEN /\ Len(trace[i].data) = 69
                           /\ Slice(trace[i].data, 3, 5) = <<90, 165>>
                           /\ Slice(trace[i].data, 5, 28) = Fill(23, 255)
                      ELSE /\ Len(trace[i].data) = 67
                           /\ Slice(trace[i].data, 3, 26) = Fill(23, 255)

\* C37 witness: a 15 session with BSL 7.2 or later sent its erase packet,
\* more than one write packet and its option packet
C37_Witness ==
    /\ opts.protocol = "stc15"
    /\ KeyWanted
    /\ StepPackets("erase") # {}
    /\ Cardinality(BlockPackets) >= 2
    /\ StepPackets("options") # {}

\* the same with a BSL older than 7.2
C37_WitnessOld ==
    /\ opts.protocol = "stc15"
    /\ ~KeyWanted
    /\ StepPackets("erase") # {}
    /\ Cardinality(BlockPackets) >= 2
    /\ StepPackets("options") # {}

-----------------------------------------------------------------------------
(* Erase experiment: program_mcu builds the image for a model of the       *)
(* registry or for the UNKNOWN model, and erase_flash computes its block   *)
(* counts.  The image is followed by its length only.                      *)

\* len(bindata) after program_mcu's truncation, eeprom and padding steps for
\* a code file of code_len bytes and an eeprom file of ee_len bytes
BuildLen(code_len, ee_given, ee_len, code_size, ee_size) ==
    LET cut   == IF code_len > code_size + ee_size
                 THEN code_size + ee_size ELSE code_len
        eedat == IF ee_len > ee_size THEN ee_size ELSE ee_len
        whole == IF ~ee_given THEN cut ELSE code_size + eedat
    IN  IF whole % 512 = 0 THEN whole ELSE whole + (512 - (whole % 512))

\* lengths of the code files and of the eeprom files tried
EraseCodeLens == {0, 1, 8192, 63488, 63489, 65536, 70000}
EraseEepromLens == {0, 1, 55296, 60000}

\* the models: every entry of the registry, and the UNKNOWN model of
\* initialize_model
EraseModels ==
    {models[k] : k \in 1..Len(models)}
        \cup {initialize_model(m) : m \in UnknownMagics}

EraseIdle ==
    [exp |-> "erase", pc |-> "init", model |-> M("", 0, 0, 0, 0),
     code_len |-> 0, ee_given |-> FALSE, ee_len |-> 0,
     erase_size |-> 0, blks |-> 0, size |-> 0, raised |-> FALSE]

\* program_mcu up to "pad to 512 byte boundary": len(bindata)
EraseLoad ==
    /\ unit.exp = "erase"
    /\ unit.pc = "init"
    /\ unit' = [unit EXCEPT !.pc = "loaded",
                   !.erase_size = BuildLen(unit.code_len, unit.ee_given,
                                           unit.ee_len, unit.model.code,
                                           unit.model.eeprom)]
    /\ UNCHANGED <<frame, sessionVars>>

\* erase_flash(len(bindata), code_size) up to the packet: bytes([...])
\* raises ValueError for a value above 255
EraseCount ==
    /\ unit.exp = "erase"
    /\ unit.pc = "loaded"
    /\ unit' = [unit EXCEPT !.pc = "done",
                   !.blks = Blocks(unit.erase_size),
                   !.size = Blocks(unit.model.code),
                   !.raised = \/ Blocks(unit.erase_size) > 255
                              \/ Blocks(unit.model.code) > 255]
    /\ UNCHANGED <<frame, sessionVars>>

EraseNext == EraseLoad \/ EraseCount

EraseInit ==
    /\ frame = FrameIdle
    /\ unit \in {[EraseIdle EXCEPT !.model = md, !.code_len = n,
                                   !.ee_given = e[1], !.ee_len = e[2]] :
                    md \in EraseModels, n \in EraseCodeLens,
                    e \in {<<FALSE, 0>>}
                          \cup {<<TRUE, m>> : m \in EraseEepromLens}}
    /\ SessionIdle

EraseSpec == EraseInit /\ [][EraseNext]_vars

\* C38: for every model of the registry and for the UNKNOWN model, and for
\* every image program_mcu builds for it, the erase block count
\* ceil(erase_size / 512) * 2 and the flash size count ceil(code / 512) * 2
\* are at most 255, so that bytes([...]) of erase_flash does not raise.
C38_EraseCounts ==
    (unit.exp = "erase" /\ unit.pc = "done") =>
        /\ unit.erase_size <= unit.model.code + unit.model.eeprom
        /\ unit.blks = ((unit.erase_size + 511) \div 512) * 2
        /\ unit.size = ((unit.model.code + 511) \div 512) * 2
        /\ unit.blks <= 255
        /\ unit.size <= 255
        /\ ~unit.raised

\* C38 witness: the largest image of the registry, a code file cut to the
\* 8192 + 55296 bytes of a model with eeprom, gives 248 blocks
C38_Witness ==
    /\ unit.exp = "erase"
    /\ unit.pc = "done"
    /\ unit.model.eeprom = 55296
    /\ unit.code_len = 70000
    /\ unit.erase_size = 63488
    /\ unit.blks = 248

\* the UNKNOWN model with a code file larger than its 63488 bytes
C38_WitnessUnknown ==
    /\ unit.exp = "erase"
    /\ unit.pc = "done"
    /\ unit.model.name = "UNKNOWN"
    /\ unit.code_len = 65536
    /\ unit.blks = 248
    /\ unit.size = 248

\* the length program_mcu's image has in the image experiment is the length
\* BuildLen computes
C38_LenAgrees ==
    (unit.exp = "image" /\ unit.pc = "done") =>
        Len(unit.bindata) = BuildLen(Len(unit.code), unit.eeprom.given,
                                     Len(unit.eeprom.data), unit.code_size,
                                     unit.ee_size)

-----------------------------------------------------------------------------
(* A packet of another type during the loop of connect *)

\* the calls of read_packet in connect that returned a payload with a type
\* byte
StatusReads ==
    {k \in Reads : /\ trace[k].step = "connect"
                   /\ trace[k].res = "ok"
                   /\ Len(trace[k].data) >= 1}

\* read k is the second read of Stc15AProtocol.get_status_packet: it follows
\* the re-ack packet 0x80 and a pulse
SecondRead(k) ==
    /\ k >= 3
    /\ trace[k - 1].op = "pulse"
    /\ trace[k - 2].op = "packet"
    /\ trace[k - 2].step = "connect"
    /\ trace[k - 2].data = <<128>>

\* read k is a 0x80 packet that Stc15AProtocol.get_status_packet answers
ReackRead(k) ==
    /\ opts.protocol \in {"stc15a", "stc15"}
    /\ trace[k].data[1] = 128
    /\ ~SecondRead(k)

\* read k made get_status_packet raise StcProtocolException
AbortRead(k) ==
    /\ trace[k].data[1] # (IF opts.protocol \in {"stc89", "stc12a"} THEN 0 ELSE 80)
    /\ ~ReackRead(k)

\* after read k the host sent nothing but the reset packet of disconnect,
\* and run returned 1
AbortedAt(k) ==
    /\ \A j \in (k + 1)..Len(trace) : trace[j].step = "disconnect"
    /\ exc = "StcProtocolException"
    /\ pc = "returned" =>
           /\ ret = 1
           /\ Len(trace) = k + 2
           /\ EndsWithDisconnect

\* C39: a well-formed packet read in the loop of connect whose type byte is
\* not the status type ends connect: no further pulse or read follows, the
\* host sends the reset packet of disconnect and run returns 1.  On 15A and
\* 15 a first packet of type 0x80 is answered with one packet 0x80, a pulse
\* and one further read, and a packet of another type than the status type
\* in that second read ends connect in the same way.
C39_WrongType ==
    \A k \in StatusReads :
        /\ AbortRead(k) => AbortedAt(k)
        /\ ReackRead(k) =>
               /\ k + 1 <= Len(trace) =>
                      /\ trace[k + 1].op = "packet"
                      /\ trace[k + 1].step = "connect"
                      /\ trace[k + 1].data = <<128>>
               /\ k + 2 <= Len(trace) => trace[k + 2].op = "pulse"
               /\ k + 3 <= Len(trace) => trace[k + 3].op = "read"

\* C39 witness: on the 89 protocol a packet of type 0x80 arrived in the loop
\* of connect and run returned 1 after the reset packet
C39_Witness ==
    /\ opts.protocol = "stc89"
    /\ \E k \in StatusReads : trace[k].data[1] = 128 /\ Len(trace) = k + 2
    /\ pc = "returned"
    /\ ret = 1
    /\ EndsWithDisconnect

\* on the 15 protocol a packet 0x80 was answered and the second read
\* returned a packet 0x80 again: run returned 1 after the reset packet
C39_WitnessReack ==
    /\ opts.protocol = "stc15"
    /\ \E k \in StatusReads :
           /\ SecondRead(k)
           /\ trace[k].data[1] = 128
           /\ Len(trace) = k + 2
    /\ pc = "returned"
    /\ ret = 1
    /\ EndsWithDisconnect

-----------------------------------------------------------------------------
(* Stc89Protocol: the 6T mode of the status packet and the cpu_6t_enabled  *)
(* option                                                                   *)

\* "self.cpu_6t = not bool(packet[19] & 1)" of the status packet received
StatusSixT == status_packet[20] % 2 = 0

\* the clock initialize_status computes from the status packet received:
\* (baud_handshake * freq_counter * cpu_t) / 7.0 with freq_counter the mean
\* of the eight counters; the division by 8 is taken out of baud_handshake
\* to stay within 32 bits
StatusClock ==
    Frac(CounterSum(status_packet, 8) * (BaudHandshake \div 8)
             * (IF StatusSixT THEN 6 ELSE 12), 7)

\* the overrides of cpu_6t_enabled on the command line
ModeOverrides ==
    {k \in 1..Len(opts.option) :
        opts.option[k].eq /\ opts.option[k].name = "cpu_6t_enabled"}

\* bit 0 of the MSR after the overrides: set_t6 clears it for a true value
\* and sets it for a false one
WrittenBit0 ==
    IF ModeOverrides = {} THEN status_packet[20] % 2
    ELSE LET k == CHOOSE k \in ModeOverrides : \A j \in ModeOverrides : j <= k
         IN  IF to_bool(opts.option[k].val) THEN 0 ELSE 1

\* C40: on the 89 protocol the mode of the clock computation and of the baud
\* divisor (sample rate 16 in 6T, 32 in 12T) is the one of bit 0 of the MSR
\* in the status packet; an override of cpu_6t_enabled changes bit 0 of the
\* MSR that program_options writes back, and neither the clock nor the
\* divisor of the packets 0x8f and 0x8e.
C40_Mode ==
    (opts.protocol = "stc89" /\ Len(status_packet) >= 22) =>
        LET rate == IF StatusSixT THEN 16 ELSE 32
            brt  == 65536 - Round(StatusClock.n,
                                  StatusClock.d * BaudTransfer * rate)
        IN  /\ StepPackets("handshake") # {} =>
                   /\ protocol.cpu_6t = StatusSixT
                   /\ protocol.mcu_clock_hz = StatusClock
            /\ \A i \in BaudPackets : UnpackH(Slice(trace[i].data, 1, 3)) = brt
            /\ \A i \in StepPackets("options") :
                   trace[i].data[2] % 2 = WrittenBit0

\* C40 witness: the MCU reported 12T, the command line set cpu_6t_enabled,
\* the divisor of the baud packets is the one of sample rate 32 and the MSR
\* written back is 0xfc
C40_Witness ==
    /\ opts.protocol = "stc89"
    /\ opts.option = <<Opt("cpu_6t_enabled", "true")>>
    /\ status_packet = Status89
    /\ \E i \in BaudPackets : trace[i].data[1] = 142
                              /\ UnpackH(Slice(trace[i].data, 1, 3)) = 65536 - 18
    /\ \E i \in StepPackets("options") : trace[i].data[2] = 252

\* the MCU reported 6T and the command line cleared cpu_6t_enabled: the
\* divisor is the one of sample rate 16 for the clock of 6T, the MSR written
\* back is 0xfd
C40_WitnessSixT ==
    /\ opts.protocol = "stc89"
    /\ opts.option = <<Opt("cpu_6t_enabled", "false")>>
    /\ status_packet = Status89SixT
    /\ protocol.mcu_clock_hz = Frac(5529600, 1)
    /\ \E i \in BaudPackets : UnpackH(Slice(trace[i].data, 1, 3)) = 65536 - 18
    /\ \E i \in StepPackets("options") : trace[i].data[2] = 253

=============================================================================
